---- MODULE Spec2Model ----
(***************************************************************************)
(* Task-assignment dashboard (employee_app.py, manager_app.py): the        *)
(* read-status tracker of a task's discussion thread, the session idle     *)
(* guard and the handlers they protect.                                    *)
(*                                                                         *)
(* Instants are integers on one clock; datetime.fromisoformat(...)         *)
(* .astimezone(timezone.utc) keeps the instant, so a stored timestamp and  *)
(* its parsed value are the same integer here.                             *)
(***************************************************************************)
EXTENDS Integers, Sequences, FiniteSets, TLC

\* ------------------------------------------------------------------ bounds
MaxT == 3
MaxComments == 2

\* --------------------------------------------------------------- constants
\* datetime.fromtimestamp(0, tz=timezone.utc): the default last-read instant.
Epoch == 0
None == "None"
\* An absent timestamp (no row, no key in session_state).
NoTime == -1
Users == {"emp", "mgr"}

Apps == {"emp", "mgr"}
Sessions == {"e1", "e2", "m1"}
\* Two browser sessions of the employee app and one of the manager app; each
\* app is its own Streamlit process with its own st.cache_data.
App(s) == IF s \in {"e1", "e2"} THEN "emp" ELSE "mgr"
\* Who signs in where: tasks are assigned to employees only, managers use the
\* manager app (its login accepts the roles manager and admin only).
LoginUsers(app) == IF app = "emp" THEN {"emp"} ELSE {"mgr"}

VARIABLES
  d,                   \* the read-status derivation applied to drawn inputs
  now,                 \* the wall clock (time.time(), datetime.now())
  tasks,               \* table tasks: id -> row
  tbl_comments,        \* table comments: a set of rows
  task_read_status,    \* table task_read_status: a set of rows
  profiles,            \* table profiles, the accounts an admin manages: id -> row
  password,            \* Supabase Auth: the password of each account
  projects,            \* table projects
  task_seq,            \* the id sequence of table tasks
  cache_comments,      \* st.cache_data of fetch_comments, per app and task_id
  cache_read,          \* st.cache_data of fetch_read_statuses, per app and user_id
  user,                \* st.session_state.user, per session
  last_activity_time,  \* st.session_state.last_activity_time, per session
  dialog,              \* st.session_state: the confirmation dialogs asked for
  page,                \* what the session's last script run rendered
  inflight,            \* the upsert a running mark_task_as_read has built
  lastOp,              \* the last script run: its session, event and backend write
  maxMark              \* per (user, task): the newest timestamp a completed
                       \* mark_task_as_read call carried

dbVars == <<tasks, tbl_comments, task_read_status>>
adminVars == <<profiles, password, projects, task_seq>>
cacheVars == <<cache_comments, cache_read>>
sessVars == <<user, last_activity_time, page, inflight>>
vars == <<d, now, tasks, tbl_comments, task_read_status, profiles, password, projects,
          task_seq, cache_comments, cache_read, user, last_activity_time, dialog,
          page, inflight, lastOp, maxMark>>

\* ------------------------------------------------------- comment ordering
\* fetch_comments: .order('created_at', desc=True) over the rows of a task.
RECURSIVE OrderDesc(_)
OrderDesc(rows) ==
  IF rows = {} THEN <<>>
  ELSE LET newest == CHOOSE c \in rows : \A x \in rows : x.created_at <= c.created_at
       IN <<newest>> \o OrderDesc(rows \ {newest})

fetch_comments(table, task_id) ==
  OrderDesc({c \in table : c.task_id = task_id})

\* read_statuses.get(task['id'], datetime.fromtimestamp(0, tz=timezone.utc))
ReadGet(read_statuses, task_id) ==
  IF task_id \in DOMAIN read_statuses THEN read_statuses[task_id] ELSE Epoch

\* ------------------------------------------------- read-status derivation
\* A slip in the order of the tests: "new activity" before "I spoke last".
ThreadStatusEmp_UnreadFirst(read_statuses, task_id, created_at, comments, uid) ==
  LET last_read_time_utc == ReadGet(read_statuses, task_id)
      last_event_time_utc ==
        IF comments # <<>> /\ comments[1].created_at > created_at
        THEN comments[1].created_at
        ELSE created_at
  IN IF last_event_time_utc > last_read_time_utc
     THEN [status_icon |-> "unread", has_new_message |-> TRUE]
     ELSE IF comments # <<>> /\ comments[1].user_id = uid
     THEN [status_icon |-> "answered", has_new_message |-> FALSE]
     ELSE IF comments # <<>>
     THEN [status_icon |-> "seen", has_new_message |-> FALSE]
     ELSE [status_icon |-> "", has_new_message |-> FALSE]

\* employee_app.py, render loop: status_icon / has_new_message of one task.
\*   "answered" = "✅ Đã trả lời", "unread" = "💬 Mới!", "seen" = "✔️ Đã xem"
ThreadStatusEmp(read_statuses, task_id, created_at, comments, uid) ==
  LET last_read_time_utc == ReadGet(read_statuses, task_id)
      last_event_time_utc ==
        IF comments # <<>> /\ comments[1].created_at > created_at
        THEN comments[1].created_at
        ELSE created_at
  IN IF comments # <<>> /\ comments[1].user_id = uid
     THEN [status_icon |-> "answered", has_new_message |-> FALSE]
     ELSE IF last_event_time_utc > last_read_time_utc
     THEN [status_icon |-> "unread", has_new_message |-> TRUE]
     ELSE IF comments # <<>>
     THEN [status_icon |-> "seen", has_new_message |-> FALSE]
     ELSE [status_icon |-> "", has_new_message |-> FALSE]

\* A slip that counts comments only, not the task's creation, as activity.
ThreadStatusMgr_CommentsOnly(read_statuses, task_id, created_at, comments, uid) ==
  LET last_read_time_utc == ReadGet(read_statuses, task_id)
      last_event_time_utc ==
        IF comments # <<>> THEN comments[1].created_at ELSE Epoch
  IN IF comments # <<>> /\ comments[1].user_id = uid
     THEN [status_icon |-> "answered", has_new_message |-> FALSE]
     ELSE IF last_event_time_utc > last_read_time_utc
     THEN [status_icon |-> "unread", has_new_message |-> TRUE]
     ELSE IF comments # <<>>
     THEN [status_icon |-> "seen", has_new_message |-> FALSE]
     ELSE [status_icon |-> "", has_new_message |-> FALSE]

\* manager_app.py, render loop: the same derivation, written again there.
ThreadStatusMgr(read_statuses, task_id, created_at, comments, uid) ==
  LET last_read_time_utc == ReadGet(read_statuses, task_id)
      last_event_time_utc ==
        IF comments # <<>> /\ comments[1].created_at > created_at
        THEN comments[1].created_at
        ELSE created_at
  IN IF comments # <<>> /\ comments[1].user_id = uid
     THEN [status_icon |-> "answered", has_new_message |-> FALSE]
     ELSE IF last_event_time_utc > last_read_time_utc
     THEN [status_icon |-> "unread", has_new_message |-> TRUE]
     ELSE IF comments # <<>>
     THEN [status_icon |-> "seen", has_new_message |-> FALSE]
     ELSE [status_icon |-> "", has_new_message |-> FALSE]

\* The mark-as-read button is drawn inside "if has_new_message:".
MarkButtonShown(st) == st.has_new_message

\* ===================================================== the running apps
MaxNow == 3
MaxTaskId == 1
MaxIdleComments == 1
MaxClock == 1802
TIMEOUT_IN_SECONDS == 1800

\* The employee account an admin manages from the manager app; it signs in to
\* no session of the model. Every account of Supabase Auth:
Other == "emp2"
Accounts == Users \cup {Other}
\* quotation_no of the one project of the old system (old_project_ref_id).
OldProject == "Q1"

Miss == [hit |-> FALSE, val |-> <<>>]
Hit(v) == [hit |-> TRUE, val |-> v]
\* No upsert under way; otherwise the row being sent and the is_expired of the
\* run that sends it.
NoReq == [task_id |-> 0, user_id |-> None, last_read_at |-> NoTime, is_expired |-> FALSE]
Payload(req) ==
  [task_id |-> req.task_id, user_id |-> req.user_id, last_read_at |-> req.last_read_at]
NoDraft == [content |-> "", file |-> None]
LoginPage == [kind |-> "login", is_expired |-> FALSE, st |-> <<>>,
              locked |-> <<>>, echo |-> NoDraft]
NoOp == [event |-> "none", op |-> "none", s |-> None, rendered |-> FALSE,
         is_expired |-> FALSE, locked |-> FALSE, from_expired |-> FALSE,
         draft |-> NoDraft]
\* st.session_state of the manager app: confirm_delete_task_<id>,
\* user_to_reset_pw, user_to_delete, project_to_delete.
NoDialog == [confirm_delete_task |-> {}, user_to_reset_pw |-> None,
             user_to_delete |-> None, project_to_delete |-> None]

\* fetch_read_statuses: {item['task_id']: item['last_read_at'] for item in rows}
fetch_read_statuses(rows, user_id) ==
  LET mine == {r \in rows : r.user_id = user_id}
  IN [t \in {r.task_id : r \in mine} |->
        (CHOOSE r \in mine : r.task_id = t).last_read_at]

\* .upsert({...}, on_conflict='task_id, user_id'): the row of the same
\* (task_id, user_id), if any, is replaced.
Upsert(rows, r) ==
  {x \in rows : ~(x.task_id = r.task_id /\ x.user_id = r.user_id)} \cup {r}

\* The tasks a main page lists, out of the task rows tk the run has fetched:
\* fetch_my_tasks(user.id) (.eq('assigned_to', user_id)) in the employee app,
\* fetch_all_tasks_and_details in the manager app.
Displayed(tk, app, uid) ==
  IF app = "emp" THEN {t \in DOMAIN tk : tk[t].assigned_to = uid}
  ELSE DOMAIN tk

\* A slip that refreshes the activity instant on every run.
IdleGuard_AlwaysRefresh(s) == now

\* The idle guard at the top of a script run.
is_expired(s) ==
  /\ last_activity_time[s] # NoTime
  /\ now - last_activity_time[s] > TIMEOUT_IN_SECONDS

IdleGuard(s) == IF is_expired(s) THEN last_activity_time[s] ELSE now

\* The cached reads of one run of the main page: a miss calls the store and
\* keeps the answer, a hit returns what was kept.
ReadCacheAfter(cr, rows, uid) ==
  [cr EXCEPT ![uid] = IF @.hit THEN @ ELSE Hit(fetch_read_statuses(rows, uid))]

CommentCacheAfter(cc, tbl, shown) ==
  [t \in DOMAIN cc |->
     IF t \in shown /\ ~cc[t].hit THEN Hit(fetch_comments(tbl, t)) ELSE cc[t]]

AllMiss(cache) == [k \in DOMAIN cache |-> Miss]

\* A slip that locks a row on manager completion only.
is_task_locked_CompletedOnly(task, exp) == task.is_completed_by_manager

\* is_task_locked = is_manager_completed or is_expired
is_task_locked(task, exp) == task.is_completed_by_manager \/ exp

RowStatus(app, rs, task, t, cs, uid) ==
  IF app = "emp" THEN ThreadStatusEmp(rs, t, task.created_at, cs, uid)
  ELSE ThreadStatusMgr(rs, t, task.created_at, cs, uid)

\* Whether the row's comment form and status box are disabled: is_task_locked
\* in the employee app, is_expired in the manager app.
RowLocked(app, task, exp) == IF app = "emp" THEN is_task_locked(task, exp) ELSE exp

MainPage(tk, app, uid, exp, cc, cr, echo) ==
  [kind |-> "main", is_expired |-> exp,
   st |-> [t \in Displayed(tk, app, uid) |->
             RowStatus(app, cr[uid].val, tk[t], t, cc[t].val, uid)],
   locked |-> [t \in Displayed(tk, app, uid) |-> RowLocked(app, tk[t], exp)],
   echo |-> echo]

\* A whole run of the main page of session s for uid, on the caches cc, cr of
\* its app (as an earlier step of the handler left them), the tables tbl, rows
\* and the task rows tk: idle guard, cached reads, render. echo is the draft a
\* comment form of this run shows back.
Script(s, uid, cc, cr, tbl, rows, tk, echo) ==
  LET app == App(s)
      exp == is_expired(s)
      cr2 == ReadCacheAfter(cr, rows, uid)
      cc2 == CommentCacheAfter(cc, tbl, Displayed(tk, app, uid))
  IN /\ last_activity_time' = [last_activity_time EXCEPT ![s] = IdleGuard(s)]
     /\ cache_read' = [cache_read EXCEPT ![app] = cr2]
     /\ cache_comments' = [cache_comments EXCEPT ![app] = cc2]
     /\ page' = [page EXCEPT ![s] = MainPage(tk, app, uid, exp, cc2, cr2, echo)]

\* A run that calls no backend write and renders from the caches as they are.
Render(s) ==
  Script(s, user[s], cache_comments[App(s)], cache_read[App(s)], tbl_comments,
         task_read_status, tasks, NoDraft)

\* A run that has written, after st.cache_data.clear() and st.rerun(): tbl and
\* tk are the tables as the write left them.
RerunCleared(s, tbl, tk) ==
  Script(s, user[s], AllMiss(cache_comments[App(s)]), AllMiss(cache_read[App(s)]),
         tbl, task_read_status, tk, NoDraft)

\* What the last run was: the widget event it took (the login form, a status
\* selectbox, a comment form, a mark-as-read button, or any other "widget"),
\* the backend write it made ("none": no write), its is_expired, whether the row was locked,
\* whether the page the event came from was already expired, the draft sent.
Ran(s, event, op, exp, lck, draft) ==
  lastOp' = [event |-> event, op |-> op, s |-> s, rendered |-> TRUE,
             is_expired |-> exp, locked |-> lck,
             from_expired |-> (page[s].kind = "main" /\ page[s].is_expired),
             draft |-> draft]

Idle(s) == inflight[s] = NoReq
OnMain(s) == user[s] # None /\ page[s].kind = "main" /\ Idle(s)
OnMgrMain(s) == OnMain(s) /\ App(s) = "mgr"

\* ---------------------------------------------------------------- actions
\* Time passes.
Tick ==
  /\ now < MaxNow
  /\ now' = now + 1
  /\ lastOp' = NoOp
  /\ UNCHANGED <<d, dbVars, adminVars, cacheVars, sessVars, dialog, maxMark>>

\* A cached read reaches its ttl (30 s for comments, 60 s for read statuses).
ExpireComments(app, t) ==
  /\ cache_comments[app][t].hit
  /\ cache_comments' = [cache_comments EXCEPT ![app][t] = Miss]
  /\ lastOp' = NoOp
  /\ UNCHANGED <<d, now, dbVars, adminVars, cache_read, sessVars, dialog, maxMark>>

ExpireRead(app, u) ==
  /\ cache_read[app][u].hit
  /\ cache_read' = [cache_read EXCEPT ![app][u] = Miss]
  /\ lastOp' = NoOp
  /\ UNCHANGED <<d, now, dbVars, adminVars, cache_comments, sessVars, dialog, maxMark>>

\* The login form: sign_in_with_password, st.session_state.user = user,
\* st.rerun() into the main page. Nothing of st.session_state is reset.
Login(s, u) ==
  /\ user[s] = None /\ Idle(s)
  /\ u \in LoginUsers(App(s))
  /\ user' = [user EXCEPT ![s] = u]
  /\ Script(s, u, cache_comments[App(s)], cache_read[App(s)], tbl_comments,
            task_read_status, tasks, NoDraft)
  /\ Ran(s, "login_form", "none", is_expired(s), FALSE, NoDraft)
  /\ UNCHANGED <<d, now, dbVars, adminVars, dialog, inflight, maxMark>>

\* The logout button: the run passes the idle guard, then sign_out,
\* st.session_state.user = None (and manager_profile = None), st.rerun() into
\* the login page. last_activity_time stays in st.session_state.
Logout(s) ==
  /\ OnMain(s)
  /\ user' = [user EXCEPT ![s] = None]
  /\ page' = [page EXCEPT ![s] = LoginPage]
  /\ last_activity_time' = [last_activity_time EXCEPT ![s] = IdleGuard(s)]
  /\ Ran(s, "widget", "none", is_expired(s), FALSE, NoDraft)
  /\ UNCHANGED <<d, now, dbVars, adminVars, cacheVars, dialog, inflight, maxMark>>

\* The refresh button: st.cache_data.clear(), st.rerun().
Refresh(s) ==
  /\ OnMain(s)
  /\ RerunCleared(s, tbl_comments, tasks)
  /\ Ran(s, "widget", "none", is_expired(s), FALSE, NoDraft)
  /\ UNCHANGED <<d, now, dbVars, adminVars, user, dialog, inflight, maxMark>>

\* add_comment's insert: the store stamps created_at; no two inserts share a
\* stamp. Of a comment row the model keeps what the read status reads.
ClockPastComments == \A c \in tbl_comments : c.created_at < now

CommentRow(t, uid, draft) ==
  [task_id |-> t, user_id |-> uid, created_at |-> now]

\* The comment form of task t, submitted from the page the session shows.
\* A non-expired run calls add_comment, drops cached reads (fetch_comments
\* .clear() in the employee app, st.cache_data.clear() in add_comment of the
\* manager app) and reruns; a run that finds the row locked echoes the draft.
CommentSubmit(s, t, draft, cap) ==
  LET app == App(s)
      uid == user[s]
      exp == is_expired(s)
      lck == RowLocked(app, tasks[t], exp)
      cr1 == ReadCacheAfter(cache_read[app], task_read_status, uid)
      cc1 == CommentCacheAfter(cache_comments[app], tbl_comments,
                               Displayed(tasks, app, uid))
  IN /\ OnMain(s)
     /\ t \in DOMAIN page[s].st /\ ~page[s].locked[t]
     /\ t \in Displayed(tasks, app, uid)
     /\ draft # NoDraft
     /\ IF ~exp
        THEN /\ Cardinality(tbl_comments) < cap
             /\ ClockPastComments
             /\ tbl_comments' = tbl_comments \cup {CommentRow(t, uid, draft)}
             /\ Script(s, uid, AllMiss(cc1),
                       IF app = "emp" THEN cr1 ELSE AllMiss(cr1),
                       tbl_comments', task_read_status, tasks, NoDraft)
             /\ Ran(s, "comment_form", "add_comment", exp, lck, draft)
        ELSE /\ UNCHANGED tbl_comments
             /\ Script(s, uid, cc1, cr1, tbl_comments, task_read_status, tasks,
                       IF lck THEN draft ELSE NoDraft)
             /\ Ran(s, "comment_form", "none", exp, lck, draft)
     /\ UNCHANGED <<d, now, tasks, task_read_status, adminVars, user, dialog,
                    inflight, maxMark>>

\* The mark-as-read button of task t, pressed on the page the session shows
\* (drawn when has_new_message, disabled=is_expired). The run that takes the
\* press builds the upsert with datetime.now(timezone.utc) when it draws the
\* button again and is not expired; .execute() then carries it to the store.
MarkBegin(s, t) ==
  LET app == App(s)
      uid == user[s]
      exp == is_expired(s)
      cr1 == ReadCacheAfter(cache_read[app], task_read_status, uid)
      cc1 == CommentCacheAfter(cache_comments[app], tbl_comments,
                               Displayed(tasks, app, uid))
      st  == RowStatus(app, cr1[uid].val, tasks[t], t, cc1[t].val, uid)
  IN /\ OnMain(s)
     /\ t \in DOMAIN page[s].st
     /\ MarkButtonShown(page[s].st[t]) /\ ~page[s].is_expired
     /\ t \in Displayed(tasks, app, uid)
     /\ IF MarkButtonShown(st) /\ ~exp
        THEN /\ inflight' = [inflight EXCEPT ![s] =
                   [task_id |-> t, user_id |-> uid, last_read_at |-> now,
                    is_expired |-> exp]]
             /\ last_activity_time' = [last_activity_time EXCEPT ![s] = IdleGuard(s)]
             /\ cache_read' = [cache_read EXCEPT ![app] = cr1]
             /\ cache_comments' = [cache_comments EXCEPT ![app] = cc1]
             /\ UNCHANGED page
             /\ lastOp' = [NoOp EXCEPT !.event = "mark_button", !.s = s,
                                       !.is_expired = exp,
                                       !.locked = is_task_locked(tasks[t], exp)]
        ELSE /\ UNCHANGED inflight
             /\ Script(s, uid, cc1, cr1, tbl_comments, task_read_status, tasks, NoDraft)
             /\ Ran(s, "mark_button", "none", exp, is_task_locked(tasks[t], exp), NoDraft)
     /\ UNCHANGED <<d, now, dbVars, adminVars, user, dialog, maxMark>>

Max(a, b) == IF a >= b THEN a ELSE b

\* mark_task_as_read: the upsert of {task_id, user_id, last_read_at}.
mark_task_as_read(rows, req) == Upsert(rows, Payload(req))

\* The upsert reaches the store; then fetch_read_statuses.clear() and
\* st.rerun().
MarkLand(s) ==
  LET app == App(s)
      req == inflight[s]
      lck == req.task_id \in DOMAIN tasks
             /\ is_task_locked(tasks[req.task_id], req.is_expired)
  IN /\ req # NoReq
     /\ task_read_status' = mark_task_as_read(task_read_status, req)
     /\ inflight' = [inflight EXCEPT ![s] = NoReq]
     /\ maxMark' = [maxMark EXCEPT ![req.user_id][req.task_id] = Max(@, req.last_read_at)]
     /\ Script(s, user[s], cache_comments[app], AllMiss(cache_read[app]),
               tbl_comments, task_read_status', tasks, NoDraft)
     /\ Ran(s, "mark_button", "mark_task_as_read", req.is_expired, lck, NoDraft)
     /\ UNCHANGED <<d, now, tasks, tbl_comments, adminVars, user, dialog>>

\* ------------------------------------------- handlers of the employee app
StatusOptions == {"To Do", "In Progress", "Done"}

\* update_task_status: .update({'status': new_status}).eq('id', task_id)
update_task_status(tk, task_id, new_status) ==
  [tk EXCEPT ![task_id].status = new_status]

\* The status selectbox of task t, set to new_status on the page the session
\* shows (disabled=is_task_locked): the run updates and reruns only if
\* new_status != task['status'] and not is_task_locked.
StatusSelect(s, t, new_status) ==
  LET uid == user[s]
      exp == is_expired(s)
      lck == is_task_locked(tasks[t], exp)
      go  == new_status # tasks[t].status /\ ~lck
  IN /\ OnMain(s) /\ App(s) = "emp"
     /\ t \in DOMAIN page[s].st /\ ~page[s].locked[t]
     /\ t \in Displayed(tasks, "emp", uid)
     /\ new_status # tasks[t].status
     /\ tasks' = IF go THEN update_task_status(tasks, t, new_status) ELSE tasks
     /\ Render(s)
     /\ Ran(s, "status_select", IF go THEN "update_task_status" ELSE "none",
            exp, lck, NoDraft)
     /\ UNCHANGED <<d, now, tbl_comments, task_read_status, adminVars, user,
                    dialog, inflight, maxMark>>

\* The change-password form of either app (submit disabled=is_expired): the
\* run calls change_password only if submitted and not is_expired and the
\* password has at least 6 characters.
ChangePassword(s, new_password) ==
  LET exp == is_expired(s)
      go  == ~exp /\ Len(new_password) >= 6
  IN /\ OnMain(s) /\ ~page[s].is_expired
     /\ password' = IF go THEN [password EXCEPT ![user[s]] = new_password]
                    ELSE password
     /\ Render(s)
     /\ Ran(s, "widget", IF go THEN "change_password" ELSE "none",
            exp, FALSE, NoDraft)
     /\ UNCHANGED <<d, now, dbVars, profiles, projects, task_seq, user, dialog,
                    inflight, maxMark>>

\* -------------------------------------------- handlers of the manager app
\* active_employees: profiles of role employee with account_status active.
ActiveEmployees ==
  {"emp"} \cup {u \in DOMAIN profiles : profiles[u].account_status = "active"}

NewTaskRow(assigned_to) ==
  [created_at |-> now, status |-> "To Do", is_completed_by_manager |-> FALSE,
   assigned_to |-> assigned_to, priority |-> "Medium", project_id |-> OldProject]

\* The new-task form (submit disabled=is_expired): a non-expired run calls
\* get_or_create_project_in_new_db, inserts the task, clears the caches and
\* reruns.
NewTask(s, assigned_to) ==
  LET exp == is_expired(s)
      id  == task_seq + 1
  IN /\ OnMgrMain(s) /\ ~page[s].is_expired
     /\ assigned_to \in ActiveEmployees
     /\ task_seq < MaxTaskId
     /\ IF ~exp
        THEN /\ projects' = projects \cup {OldProject}
             /\ task_seq' = id
             /\ tasks' = (id :> NewTaskRow(assigned_to)) @@ tasks
             /\ RerunCleared(s, tbl_comments, tasks')
             /\ Ran(s, "widget", "insert_task", exp, FALSE, NoDraft)
        ELSE /\ UNCHANGED <<projects, task_seq, tasks>>
             /\ Render(s)
             /\ Ran(s, "widget", "none", exp, FALSE, NoDraft)
     /\ UNCHANGED <<d, now, tbl_comments, task_read_status, profiles, password,
                    user, dialog, inflight, maxMark>>

\* update_task_details: .update(updates).eq('id', task_id)
update_task_details(tk, task_id, priority) ==
  [tk EXCEPT ![task_id].priority = priority]

\* The edit form of task t (its toggle is disabled=is_expired): a non-expired
\* run with a non-empty updates_dict calls update_task_details (which clears
\* the caches) and reruns.
EditTask(s, t, new_priority) ==
  LET exp == is_expired(s)
      go  == ~exp /\ new_priority # tasks[t].priority
  IN /\ OnMgrMain(s) /\ ~page[s].is_expired
     /\ t \in DOMAIN page[s].st /\ t \in DOMAIN tasks
     /\ IF go
        THEN /\ tasks' = update_task_details(tasks, t, new_priority)
             /\ RerunCleared(s, tbl_comments, tasks')
             /\ Ran(s, "widget", "update_task_details", exp, FALSE, NoDraft)
        ELSE /\ UNCHANGED tasks
             /\ Render(s)
             /\ Ran(s, "widget", "none", exp, FALSE, NoDraft)
     /\ UNCHANGED <<d, now, tbl_comments, task_read_status, adminVars, user,
                    dialog, inflight, maxMark>>

\* The delete button of task t (disabled=is_expired) and not is_expired: the
\* confirmation is asked for and drawn in the same run.
DeleteTaskAsk(s, t) ==
  LET exp == is_expired(s)
  IN /\ OnMgrMain(s) /\ ~page[s].is_expired
     /\ t \in DOMAIN page[s].st /\ t \in DOMAIN tasks
     /\ t \notin dialog[s].confirm_delete_task
     /\ dialog' = IF exp THEN dialog
                  ELSE [dialog EXCEPT ![s].confirm_delete_task = @ \cup {t}]
     /\ Render(s)
     /\ Ran(s, "widget", "none", exp, FALSE, NoDraft)
     /\ UNCHANGED <<d, now, dbVars, adminVars, user, inflight, maxMark>>

\* delete_task: the task row goes, its comments with it (cascade).
delete_task_rows(tk, task_id) == [t \in DOMAIN tk \ {task_id} |-> tk[t]]
delete_task_comments(tbl, task_id) == {c \in tbl : c.task_id # task_id}

\* The confirm button of the delete-task confirmation, and not is_expired.
DeleteTaskConfirm(s, t) ==
  LET exp == is_expired(s)
  IN /\ OnMgrMain(s)
     /\ t \in dialog[s].confirm_delete_task /\ t \in DOMAIN tasks
     /\ IF ~exp
        THEN /\ tasks' = delete_task_rows(tasks, t)
             /\ tbl_comments' = delete_task_comments(tbl_comments, t)
             /\ dialog' = [dialog EXCEPT ![s].confirm_delete_task = @ \ {t}]
             /\ RerunCleared(s, tbl_comments', tasks')
             /\ Ran(s, "widget", "delete_task", exp, FALSE, NoDraft)
        ELSE /\ UNCHANGED <<tasks, tbl_comments, dialog>>
             /\ Render(s)
             /\ Ran(s, "widget", "none", exp, FALSE, NoDraft)
     /\ UNCHANGED <<d, now, task_read_status, adminVars, user, inflight, maxMark>>

\* The cancel button of the delete-task confirmation.
DeleteTaskCancel(s, t) ==
  /\ OnMgrMain(s)
  /\ t \in dialog[s].confirm_delete_task /\ t \in DOMAIN tasks
  /\ dialog' = [dialog EXCEPT ![s].confirm_delete_task = @ \ {t}]
  /\ Render(s)
  /\ Ran(s, "widget", "none", is_expired(s), FALSE, NoDraft)
  /\ UNCHANGED <<d, now, dbVars, adminVars, user, inflight, maxMark>>

\* A cancel button of another confirmation: the key is deleted, st.rerun().
DialogKeys == {"user_to_reset_pw", "user_to_delete", "project_to_delete"}

Cancel(s, key) ==
  /\ OnMgrMain(s)
  /\ dialog[s][key] # None
  /\ dialog' = [dialog EXCEPT ![s][key] = None]
  /\ Render(s)
  /\ Ran(s, "widget", "none", is_expired(s), FALSE, NoDraft)
  /\ UNCHANGED <<d, now, dbVars, adminVars, user, inflight, maxMark>>

\* The add-employee form (admin; submit disabled=is_expired): a non-expired
\* run creates the auth user and its profile, clears the caches and reruns;
\* an email already in use makes create_user fail.
AddEmployee(s, pw) ==
  LET exp == is_expired(s)
      go  == ~exp /\ Other \notin DOMAIN profiles
  IN /\ OnMgrMain(s) /\ ~page[s].is_expired
     /\ IF go
        THEN /\ profiles' = (Other :> [account_status |-> "active"]) @@ profiles
             /\ password' = [password EXCEPT ![Other] = pw]
             /\ RerunCleared(s, tbl_comments, tasks)
             /\ Ran(s, "widget", "create_user", exp, FALSE, NoDraft)
        ELSE /\ UNCHANGED <<profiles, password>>
             /\ Render(s)
             /\ Ran(s, "widget", "none", exp, FALSE, NoDraft)
     /\ UNCHANGED <<d, now, dbVars, projects, task_seq, user, dialog, inflight,
                    maxMark>>

\* update_account_status: the ban in Supabase Auth and account_status of the
\* profile.
update_account_status(pf, user_id, new_status) ==
  [pf EXCEPT ![user_id].account_status = new_status]

\* The activate / deactivate button of a listed account (disabled=is_expired)
\* and not is_expired.
SetAccountStatus(s, u) ==
  LET exp == is_expired(s)
      new_status == IF profiles[u].account_status = "active" THEN "inactive"
                    ELSE "active"
  IN /\ OnMgrMain(s) /\ ~page[s].is_expired
     /\ u \in DOMAIN profiles
     /\ IF ~exp
        THEN /\ profiles' = update_account_status(profiles, u, new_status)
             /\ RerunCleared(s, tbl_comments, tasks)
             /\ Ran(s, "widget", "update_account_status", exp,
                    FALSE, NoDraft)
        ELSE /\ UNCHANGED profiles
             /\ Render(s)
             /\ Ran(s, "widget", "none", exp, FALSE, NoDraft)
     /\ UNCHANGED <<d, now, dbVars, password, projects, task_seq, user, dialog,
                    inflight, maxMark>>

\* The reset-password and delete buttons of a listed account
\* (disabled=is_expired) and not is_expired: the dialog is asked for,
\* st.rerun().
AskUser(s, key, u) ==
  LET exp == is_expired(s)
  IN /\ OnMgrMain(s) /\ ~page[s].is_expired
     /\ key \in {"user_to_reset_pw", "user_to_delete"}
     /\ u \in DOMAIN profiles
     /\ dialog[s][key] = None
     /\ dialog' = IF exp THEN dialog ELSE [dialog EXCEPT ![s][key] = u]
     /\ Render(s)
     /\ Ran(s, "widget", "none", exp, FALSE, NoDraft)
     /\ UNCHANGED <<d, now, dbVars, adminVars, user, inflight, maxMark>>

\* reset_user_password: auth.admin.update_user_by_id(user_id, password); an
\* account that is gone makes the call fail.
reset_user_password(pw, pf, user_id, new_password) ==
  IF user_id \in DOMAIN pf THEN [pw EXCEPT ![user_id] = new_password] ELSE pw

\* The form of the reset-password dialog: "if submitted:", with no test of
\* is_expired and a submit button that is never disabled.
ResetPwConfirm(s, new_password) ==
  LET exp == is_expired(s)
      u   == dialog[s].user_to_reset_pw
      go  == Len(new_password) >= 6
  IN /\ OnMgrMain(s)
     /\ u # None
     /\ IF go
        THEN /\ password' = reset_user_password(password, profiles, u, new_password)
             /\ dialog' = [dialog EXCEPT ![s].user_to_reset_pw = None]
             /\ Ran(s, "widget",
                    IF u \in DOMAIN profiles THEN "reset_user_password" ELSE "none",
                    exp, FALSE, NoDraft)
        ELSE /\ UNCHANGED <<password, dialog>>
             /\ Ran(s, "widget", "none", exp, FALSE, NoDraft)
     /\ Render(s)
     /\ UNCHANGED <<d, now, dbVars, profiles, projects, task_seq, user, inflight,
                    maxMark>>

\* Rows that reference an account: a delete of the account violates their
\* foreign key.
Referenced(u) ==
  \/ \E t \in DOMAIN tasks : tasks[t].assigned_to = u
  \/ \E c \in tbl_comments : c.user_id = u

\* delete_employee: auth.admin.delete_user, then the profile row.
delete_employee(pf, user_id) == [u \in DOMAIN pf \ {user_id} |-> pf[u]]

\* The confirm button of the delete-user dialog: no test of is_expired, never
\* disabled. delete_employee deletes the key and reruns on both paths.
DeleteUserConfirm(s) ==
  LET exp == is_expired(s)
      u   == dialog[s].user_to_delete
      go  == u \in DOMAIN profiles /\ ~Referenced(u)
  IN /\ OnMgrMain(s)
     /\ u # None
     /\ profiles' = IF go THEN delete_employee(profiles, u) ELSE profiles
     /\ dialog' = [dialog EXCEPT ![s].user_to_delete = None]
     /\ IF go THEN RerunCleared(s, tbl_comments, tasks) ELSE Render(s)
     /\ Ran(s, "widget", IF go THEN "delete_employee" ELSE "none",
            exp, FALSE, NoDraft)
     /\ UNCHANGED <<d, now, dbVars, password, projects, task_seq, user, inflight,
                    maxMark>>

\* The delete button of a listed project (disabled=is_expired; the run does
\* not test is_expired): the dialog is asked for, st.rerun().
DeleteProjectAsk(s, p) ==
  /\ OnMgrMain(s) /\ ~page[s].is_expired
  /\ p \in projects
  /\ dialog[s].project_to_delete = None
  /\ dialog' = [dialog EXCEPT ![s].project_to_delete = p]
  /\ Render(s)
  /\ Ran(s, "widget", "none", is_expired(s), FALSE, NoDraft)
  /\ UNCHANGED <<d, now, dbVars, adminVars, user, inflight, maxMark>>

\* delete_project: refused while a task references the project.
delete_project(pr, tk, project_id) ==
  IF \E t \in DOMAIN tk : tk[t].project_id = project_id THEN pr
  ELSE pr \ {project_id}

\* The confirm button of the delete-project dialog (drawn while projects
\* exist), and not is_expired.
DeleteProjectConfirm(s) ==
  LET exp == is_expired(s)
      p   == dialog[s].project_to_delete
      go  == ~exp /\ delete_project(projects, tasks, p) # projects
  IN /\ OnMgrMain(s)
     /\ p # None /\ projects # {}
     /\ projects' = IF exp THEN projects ELSE delete_project(projects, tasks, p)
     /\ dialog' = IF exp THEN dialog ELSE [dialog EXCEPT ![s].project_to_delete = None]
     /\ IF go THEN RerunCleared(s, tbl_comments, tasks) ELSE Render(s)
     /\ Ran(s, "widget", IF go THEN "delete_project" ELSE "none",
            exp, FALSE, NoDraft)
     /\ UNCHANGED <<d, now, dbVars, profiles, password, task_seq, user, inflight,
                    maxMark>>

\* ------------------------------------------------------------------- Spec
TaskIds == {1}
DIdle == [phase |-> "off"]

TaskRow(done) ==
  [created_at |-> 1, status |-> "To Do", is_completed_by_manager |-> done,
   assigned_to |-> "emp", priority |-> "Medium", project_id |-> OldProject]

\* The accounts, projects and dialogs as a fresh deployment with one managed
\* employee and one synchronised project has them.
InitAdmin ==
  /\ profiles = (Other :> [account_status |-> "active"])
  /\ password = [u \in Accounts |-> "secret0"]
  /\ projects = {OldProject}
  /\ dialog = [s \in Sessions |-> NoDialog]

InitCommon ==
  /\ now = 1
  /\ tbl_comments = {}
  /\ task_read_status = {}
  /\ InitAdmin
  /\ task_seq = 1
  /\ cache_comments = [a \in Apps |-> [t \in TaskIds |-> Miss]]
  /\ cache_read = [a \in Apps |-> [u \in Users |-> Miss]]
  /\ user = [s \in Sessions |-> None]
  /\ last_activity_time = [s \in Sessions |-> NoTime]
  /\ page = [s \in Sessions |-> LoginPage]
  /\ inflight = [s \in Sessions |-> NoReq]
  /\ lastOp = NoOp
  /\ maxMark = [u \in Users |-> [t \in TaskIds |-> NoTime]]

\* Spec follows the employee's read status: the employee acknowledges from
\* two sessions, the manager comments and reads.
EmpSessions == {s \in Sessions : App(s) = "emp"}

\* Every session has signed in (e1, e2 as emp, m1 as mgr) and shows its first
\* main page, rendered at instant 1 from an empty thread.
SignedIn(s) == CHOOSE u \in LoginUsers(App(s)) : TRUE

Init ==
  /\ d = DIdle
  /\ now = 1
  /\ \E done \in BOOLEAN : tasks = (1 :> TaskRow(done))
  /\ tbl_comments = {}
  /\ task_read_status = {}
  /\ InitAdmin
  /\ task_seq = 1
  /\ cache_comments = [a \in Apps |-> [t \in TaskIds |-> Hit(<<>>)]]
  /\ cache_read = [a \in Apps |-> [u \in Users |->
                     IF u \in LoginUsers(a) THEN Hit(<<>>) ELSE Miss]]
  /\ user = [s \in Sessions |-> SignedIn(s)]
  /\ last_activity_time = [s \in Sessions |-> 1]
  /\ page = [s \in Sessions |->
               MainPage(tasks, App(s), SignedIn(s), FALSE, cache_comments[App(s)],
                        cache_read[App(s)], NoDraft)]
  /\ inflight = [s \in Sessions |-> NoReq]
  /\ lastOp = NoOp
  /\ maxMark = [u \in Users |-> [t \in TaskIds |-> NoTime]]

TextDraft == [content |-> "hi", file |-> None]

Next ==
  \/ Tick
  \/ \E a \in Apps, t \in TaskIds : ExpireComments(a, t)
  \/ \E a \in Apps, u \in Users : ExpireRead(a, u)
  \/ \E s \in Sessions : Refresh(s)
  \/ \E s \in Sessions, t \in TaskIds : CommentSubmit(s, t, TextDraft, MaxComments)
  \/ \E s \in EmpSessions, t \in TaskIds : MarkBegin(s, t)
  \/ \E s \in Sessions : MarkLand(s)

Spec == Init /\ [][Next]_vars

\* --------------------------- SpecIdle: one browser session and its idle guard
\* SpecIdle follows one browser session, of either app, through every handler
\* of its app: the session that is signed in at the start (the manager app's
\* user is an admin). Time passes in waits of 1800 s and 1801 s, so both
\* sides of "idle_duration > TIMEOUT_IN_SECONDS" are met; a backend call
\* returns before time passes.
IdleTaskIds == 1..MaxTaskId
IdleSteps == {TIMEOUT_IN_SECONDS, TIMEOUT_IN_SECONDS + 1}
Drafts == {TextDraft, [content |-> "", file |-> "a.docx"],
           [content |-> "hi", file |-> "a.docx"]}
PasswordInputs == {"secret1", "abc"}
Priorities == {"Medium", "High"}

InUse(s) == last_activity_time[s] # NoTime

Wait(dt) ==
  /\ now + dt <= MaxClock
  /\ \A s \in Sessions : Idle(s)
  /\ now' = now + dt
  /\ lastOp' = NoOp
  /\ UNCHANGED <<d, dbVars, adminVars, cacheVars, sessVars, dialog, maxMark>>

\* The store holds no task yet or one task, assigned to the employee at
\* instant 1 (manager-completed or not); the session shows its first main
\* page, rendered at instant 1.
IdleTasks == {<<>>} \cup {(1 :> TaskRow(done)) : done \in BOOLEAN}

IdleInit ==
  /\ d = DIdle
  /\ now = 1
  /\ tasks \in IdleTasks
  /\ task_seq = Cardinality(DOMAIN tasks)
  /\ tbl_comments = {}
  /\ task_read_status = {}
  /\ InitAdmin
  /\ \E a \in {"e1", "m1"} :
       /\ user = [s \in Sessions |-> IF s = a THEN SignedIn(s) ELSE None]
       /\ last_activity_time = [s \in Sessions |-> IF s = a THEN 1 ELSE NoTime]
       /\ cache_comments = [x \in Apps |-> [t \in IdleTaskIds |->
                              IF x = App(a) /\ t \in Displayed(tasks, x, SignedIn(a))
                              THEN Hit(<<>>) ELSE Miss]]
       /\ cache_read = [x \in Apps |-> [u \in Users |->
                          IF x = App(a) /\ u = SignedIn(a) THEN Hit(<<>>) ELSE Miss]]
       /\ page = [s \in Sessions |->
                    IF s = a
                    THEN MainPage(tasks, App(s), SignedIn(s), FALSE,
                                  cache_comments[App(s)], cache_read[App(s)], NoDraft)
                    ELSE LoginPage]
  /\ inflight = [s \in Sessions |-> NoReq]
  /\ lastOp = NoOp
  /\ maxMark = [u \in Users |-> [t \in IdleTaskIds |-> NoTime]]

IdleNext ==
  \/ \E dt \in IdleSteps : Wait(dt)
  \/ \E s \in Sessions : InUse(s) /\ Login(s, SignedIn(s))
  \/ \E s \in Sessions : Logout(s)
  \/ \E s \in Sessions : Refresh(s)
  \/ \E s \in Sessions, t \in IdleTaskIds, draft \in Drafts :
       t \in DOMAIN tasks /\ CommentSubmit(s, t, draft, MaxIdleComments)
  \/ \E s \in Sessions, t \in IdleTaskIds :
       t \in DOMAIN tasks /\ MarkBegin(s, t)
  \/ \E s \in Sessions : MarkLand(s)
  \/ \E s \in Sessions, t \in IdleTaskIds, st \in StatusOptions :
       t \in DOMAIN tasks /\ StatusSelect(s, t, st)
  \/ \E s \in Sessions, pw \in PasswordInputs : ChangePassword(s, pw)
  \/ \E s \in Sessions, e \in Accounts : NewTask(s, e)
  \/ \E s \in Sessions, t \in IdleTaskIds, p \in Priorities :
       t \in DOMAIN tasks /\ EditTask(s, t, p)
  \/ \E s \in Sessions, t \in IdleTaskIds : DeleteTaskAsk(s, t)
  \/ \E s \in Sessions, t \in IdleTaskIds : DeleteTaskConfirm(s, t)
  \/ \E s \in Sessions, t \in IdleTaskIds : DeleteTaskCancel(s, t)
  \/ \E s \in Sessions, k \in DialogKeys : Cancel(s, k)
  \/ \E s \in Sessions : AddEmployee(s, "secret0")
  \/ \E s \in Sessions, u \in Accounts : SetAccountStatus(s, u)
  \/ \E s \in Sessions, u \in Accounts :
       AskUser(s, "user_to_reset_pw", u)
  \/ \E s \in Sessions, u \in Accounts :
       AskUser(s, "user_to_delete", u)
  \/ \E s \in Sessions, pw \in PasswordInputs : ResetPwConfirm(s, pw)
  \/ \E s \in Sessions : DeleteUserConfirm(s)
  \/ \E s \in Sessions, p \in projects : DeleteProjectAsk(s, p)
  \/ \E s \in Sessions : DeleteProjectConfirm(s)

SpecIdle == IdleInit /\ [][IdleNext]_vars

\* ------------------------------------- SpecDerive: the derivation alone
\* Inputs: a comments table of one task (distinct created_at, as the store
\* stamps each insert), the task's created_at, the viewer and the viewer's
\* read-status row (NoTime: no row).
NotRendered == [status_icon |-> "-", has_new_message |-> FALSE]
Times == 0..MaxT
CommentRows == [task_id : {1}, user_id : Users, created_at : Times]
CommentTables ==
  {tbl \in SUBSET CommentRows :
      /\ Cardinality(tbl) <= MaxComments
      /\ \A a, b \in tbl : a # b => a.created_at # b.created_at}

DeriveInit ==
  /\ InitCommon
  /\ tasks = (1 :> TaskRow(FALSE))
  /\ \E tbl \in CommentTables, c \in Times, r \in Times \cup {NoTime}, u \in Users :
    d = [phase |-> "in", table |-> tbl, created_at |-> c, last_read_at |-> r,
         viewer |-> u, emp |-> NotRendered, mgr |-> NotRendered]

\* One render of the task row in each app on the drawn inputs.
DeriveRender ==
  /\ d.phase = "in"
  /\ LET rs == IF d.last_read_at = NoTime THEN <<>> ELSE (1 :> d.last_read_at)
         comments == fetch_comments(d.table, 1)
     IN d' = [d EXCEPT !.phase = "out",
                       !.emp = ThreadStatusEmp(rs, 1, d.created_at, comments, d.viewer),
                       !.mgr = ThreadStatusMgr(rs, 1, d.created_at, comments, d.viewer)]
  /\ UNCHANGED <<now, dbVars, adminVars, cacheVars, sessVars, dialog, lastOp, maxMark>>

DeriveNext == DeriveRender

SpecDerive == DeriveInit /\ [][DeriveNext]_vars

\* ================================================================ claims
\* The stated derivation of section 4.2, on the table itself: the newest
\* comment is the one of greatest created_at, lastEventAt the later of the
\* task's creation and that comment, lastReadAt the epoch when no row exists.
NewestOf(tbl) == CHOOSE c \in tbl : \A x \in tbl : x.created_at <= c.created_at

DeriveThreadStatus(lastReadRow, taskCreatedAt, tbl, viewer) ==
  LET lastReadAt == IF lastReadRow = NoTime THEN Epoch ELSE lastReadRow
      lastEventAt == IF tbl = {} THEN taskCreatedAt
                     ELSE Max(taskCreatedAt, NewestOf(tbl).created_at)
  IN IF tbl # {} /\ NewestOf(tbl).user_id = viewer THEN "answered"
     ELSE IF lastEventAt > lastReadAt THEN "unread"
     ELSE IF tbl # {} THEN "seen"
     ELSE ""

\* C1: for every lastReadAt (epoch when no row), taskCreatedAt, comment list
\* and viewer, the status both apps compute on render is the ordered
\* derivation answered / unread / seen / "", and the mark-as-read button is
\* offered exactly when the status is "unread".
C1_DerivationMatches ==
  d.phase = "out" =>
    LET want == DeriveThreadStatus(d.last_read_at, d.created_at, d.table, d.viewer)
    IN /\ d.emp.status_icon = want
       /\ d.mgr.status_icon = want
       /\ MarkButtonShown(d.emp) <=> (want = "unread")
       /\ MarkButtonShown(d.mgr) <=> (want = "unread")

\* The viewer spoke last although the thread holds activity newer than the
\* viewer's read row: "answered" wins over "unread".
C1_Witness ==
  /\ d.phase = "out"
  /\ d.table # {}
  /\ NewestOf(d.table).created_at > d.created_at
  /\ d.last_read_at # NoTime /\ d.last_read_at < NewestOf(d.table).created_at
  /\ d.emp.status_icon = "answered" /\ d.mgr.status_icon = "answered"

\* C2 as stated: a task with no comments and no read-status row of the viewer
\* derives "" (no discussion).
C2_NoCommentsNoRowIsBlank ==
  (d.phase = "out" /\ d.table = {} /\ d.last_read_at = NoTime) =>
    (d.emp.status_icon = "" /\ d.mgr.status_icon = "")

\* C2 as amended: with no comments and no read-status row the task's own
\* creation is the unacknowledged event, so the status is "unread" for any
\* creation instant after the epoch; with no comments the status is "" only
\* when a read row at or after the creation exists (or T0 is the epoch).
C2_NoCommentsNoRowIsUnread ==
  (d.phase = "out" /\ d.table = {}) =>
    LET lastReadAt == IF d.last_read_at = NoTime THEN Epoch ELSE d.last_read_at
        want == IF d.created_at > lastReadAt THEN "unread" ELSE ""
    IN d.emp.status_icon = want /\ d.mgr.status_icon = want

C2_Witness ==
  /\ d.phase = "out" /\ d.table = {} /\ d.last_read_at = NoTime
  /\ d.created_at > Epoch
  /\ d.emp.status_icon = "unread" /\ d.mgr.status_icon = "unread"

\* C3: once the viewer has marked the task read at T2, with the newest stored
\* comment written by another user at T1, T0 < T1 < T2 (so no comment after
\* T2 exists), every render of the viewer's page shows the thread of the
\* (not manager-locked) task as "seen".
C3_SeenAfterMark ==
  \A s \in Sessions, t \in TaskIds :
    LET u == user[s]
        thread == {c \in tbl_comments : c.task_id = t}
    IN (/\ lastOp.rendered /\ lastOp.s = s
        /\ u # None /\ page[s].kind = "main" /\ t \in DOMAIN page[s].st
        /\ ~tasks[t].is_completed_by_manager
        /\ maxMark[u][t] # NoTime
        /\ thread # {}
        /\ NewestOf(thread).user_id # u
        /\ NewestOf(thread).created_at > tasks[t].created_at
        /\ NewestOf(thread).created_at < maxMark[u][t])
       => page[s].st[t].status_icon = "seen"

\* C4: a step changes the read-status table only when it is the upsert of a
\* mark-as-read press (rendering, commenting, refreshing never write it), and
\* no step lowers the last_read_at of a (user, task) pair (stated for tasks the
\* manager has not locked, so that it does not rest on marking a locked task).
C4_OnlyMarkWritesAndNeverDecreases ==
  [][/\ (task_read_status' # task_read_status => lastOp'.op = "mark_task_as_read")
     /\ \A r \in task_read_status :
          tasks[r.task_id].is_completed_by_manager \/
          \E r2 \in task_read_status' :
            /\ r2.task_id = r.task_id /\ r2.user_id = r.user_id
            /\ r2.last_read_at >= r.last_read_at]_vars

\* C5: when no mark-as-read call of a user on a task is under way and at least
\* one has completed, the table holds exactly one row for the pair and its
\* last_read_at is the timestamp of the latest call.
C5_OneRowWithLatestTimestamp ==
  \A u \in Users, t \in TaskIds :
    ((\A s \in Sessions : ~(inflight[s].user_id = u /\ inflight[s].task_id = t))
       /\ ~tasks[t].is_completed_by_manager
       /\ maxMark[u][t] # NoTime)
    => LET rows == {r \in task_read_status : r.user_id = u /\ r.task_id = t}
       IN /\ Cardinality(rows) = 1
          /\ \A r \in rows : r.last_read_at = maxMark[u][t]

\* C6: a mark-as-read upsert is carried out only from a run that is not
\* idle-expired and for a task that is not manager-locked.
C6_NoMarkWhenExpiredOrLocked ==
  lastOp.op = "mark_task_as_read" =>
    (~lastOp.is_expired /\ ~tasks[1].is_completed_by_manager /\ ~lastOp.locked)

\* C7: once a render of a session is idle-expired, every later render of
\* that session is idle-expired, and a run that finds the session expired
\* leaves last_activity_time as it was, whatever control started the run.
C7_ExpiryIsSticky ==
  [][\A s \in Sessions :
       /\ (page[s].kind = "main" /\ page[s].is_expired /\ page'[s].kind = "main")
            => page'[s].is_expired
       /\ is_expired(s) => last_activity_time'[s] = last_activity_time[s]]_vars

\* A run started from a page that was already expired has rendered, expired
\* again, with last_activity_time still more than 1800 s in the past.
C7_Witness ==
  /\ lastOp.rendered /\ lastOp.from_expired /\ lastOp.is_expired
  /\ page[lastOp.s].kind = "main" /\ page[lastOp.s].is_expired
  /\ now - last_activity_time[lastOp.s] > TIMEOUT_IN_SECONDS

\* C8: the first render after a sign-in (following a sign-out) is not
\* idle-expired, however long ago the session's last recorded activity was.
C8_ReloginEndsExpiry ==
  lastOp.event = "login_form" => ~page[lastOp.s].is_expired

\* C9: no run that is idle-expired makes a backend write (comment insert,
\* status change, task create / edit / delete, password change, account
\* activate / deactivate, admin password reset, user delete, project delete),
\* a dialog opened before expiry included.
C9_NoWriteWhileExpired ==
  lastOp.op # "none" => ~lastOp.is_expired

\* C10: in a run that finds more than 1800 s since the last recorded
\* activity, a status selection leaves the tasks table as it was, and a
\* submitted comment draft (text, file or both) is not inserted and is shown
\* back: its text and the name of its file.
C10_ExpiredRunKeepsStatusAndEchoesDraft ==
  [][\A s \in Sessions :
       (lastOp'.s = s /\ lastOp'.rendered /\ lastOp'.is_expired) =>
         /\ (lastOp'.event = "status_select" => tasks' = tasks)
         /\ (lastOp'.event = "comment_form" =>
               /\ tbl_comments' = tbl_comments
               /\ page'[s].echo = lastOp'.draft
               /\ page'[s].echo # NoDraft)]_vars

\* An expired run has taken a comment with text and a file and shows both
\* back; the comments table is empty still.
C10_Witness ==
  /\ lastOp.event = "comment_form" /\ lastOp.is_expired
  /\ lastOp.draft.content # "" /\ lastOp.draft.file # None
  /\ page[lastOp.s].echo = lastOp.draft
  /\ tbl_comments = {}

\* ============================ SpecAccount: accounts an admin deactivates
\* What is left unchanged by the specifications that keep their state in d.
nonD == <<now, dbVars, adminVars, cacheVars, sessVars, dialog, lastOp, maxMark>>

\* One session of the employee app and one of the manager app; an admin,
\* signed in to the manager app elsewhere, activates and deactivates the
\* accounts of the employee and of the manager (never its own: the list skips
\* u['id'] == user.id).
AcctSessions == {"e1", "m1"}
Role(u) == IF u = "emp" THEN "employee" ELSE "manager"
NoCall == [pc |-> "none", user_id |-> None, new_status |-> None]
NoRun == [s |-> None, event |-> "none", user_id |-> None, account_status |-> None,
          view |-> "login", acted |-> FALSE]

\* d.account_status: profiles.account_status; d.ban: the ban of Supabase Auth;
\* d.user: st.session_state.user; d.view: the page the session shows (login,
\* main, or blocked: the "account disabled" notice before st.stop());
\* d.call: the update_account_status call under way; d.last: the last run.
AcctInit ==
  /\ InitCommon
  /\ tasks = <<>>
  /\ d = [phase |-> "acct",
          account_status |-> [u \in Users |-> "active"],
          ban |-> [u \in Users |-> FALSE],
          user |-> [s \in AcctSessions |-> None],
          view |-> [s \in AcctSessions |-> "login"],
          call |-> NoCall,
          last |-> NoRun]

\* supabase.auth.sign_in_with_password with the right password: refused for a
\* banned account.
sign_in_with_password(ban, u) == ~ban[u]

\* employee_app.py: the account_status test at the top of every main-page run.
EmpProfileCheck(account_status, u) ==
  IF account_status[u] = "inactive" THEN "blocked" ELSE "main"

\* manager_app.py login: role in ['manager', 'admin'] and account_status not
\* 'inactive'.
MgrLoginAccepts(account_status, u) ==
  Role(u) \in {"manager", "admin"} /\ account_status[u] # "inactive"

AcctRun(s, event, u, view, acted) ==
  [s |-> s, event |-> event, user_id |-> u, account_status |-> d.account_status[u],
   view |-> view, acted |-> acted]

\* The login form of either app, submitted for account u.
AcctLogin(s, u) ==
  LET ok == IF App(s) = "emp" THEN sign_in_with_password(d.ban, u)
            ELSE sign_in_with_password(d.ban, u) /\ MgrLoginAccepts(d.account_status, u)
      view == IF ~ok THEN "login"
              ELSE IF App(s) = "emp" THEN EmpProfileCheck(d.account_status, u)
              ELSE "main"
  IN /\ d.phase = "acct" /\ d.user[s] = None
     /\ d' = [d EXCEPT !.user[s] = IF ok THEN u ELSE None,
                       !.view[s] = view,
                       !.last = AcctRun(s, "login_form", u, view, FALSE)]
     /\ UNCHANGED nonD

\* A control of the main page is used: the run that takes it. In the
\* employee app the profile is read first and an inactive account stops the
\* run; in the manager app manager_profile comes from st.session_state and
\* the handlers run.
AcctWidget(s) ==
  LET u == d.user[s]
      view == IF App(s) = "emp" THEN EmpProfileCheck(d.account_status, u) ELSE "main"
  IN /\ d.phase = "acct" /\ d.view[s] = "main"
     /\ d' = [d EXCEPT !.view[s] = view,
                       !.last = AcctRun(s, "widget", u, view, view = "main")]
     /\ UNCHANGED nonD

\* The logout button, of the main page or of the "account disabled" notice.
AcctLogout(s) ==
  /\ d.phase = "acct" /\ d.view[s] \in {"main", "blocked"}
  /\ d' = [d EXCEPT !.last = AcctRun(s, "logout", d.user[s], "login", FALSE),
                    !.user[s] = None,
                    !.view[s] = "login"]
  /\ UNCHANGED nonD

\* update_account_status, first call: auth.admin.update_user_by_id with
\* ban_duration '876000h' (inactive) or 'none' (active). A failure raises and
\* the profile is left alone.
AdminBan(u, ok) ==
  LET new_status == IF d.account_status[u] = "active" THEN "inactive" ELSE "active"
  IN /\ d.phase = "acct" /\ d.call = NoCall
     /\ d' = IF ok
             THEN [d EXCEPT !.ban[u] = (new_status = "inactive"),
                            !.call = [pc |-> "profile", user_id |-> u,
                                      new_status |-> new_status],
                            !.last = NoRun]
             ELSE [d EXCEPT !.last = [NoRun EXCEPT !.event = "update_failed"]]
     /\ UNCHANGED nonD

\* update_account_status, second call: the update of profiles.account_status.
AdminProfile(ok) ==
  /\ d.phase = "acct" /\ d.call.pc = "profile"
  /\ d' = IF ok
          THEN [d EXCEPT !.account_status[d.call.user_id] = d.call.new_status,
                         !.call = NoCall, !.last = NoRun]
          ELSE [d EXCEPT !.call = NoCall,
                         !.last = [NoRun EXCEPT !.event = "update_failed"]]
  /\ UNCHANGED nonD

AcctNext ==
  \/ \E s \in AcctSessions, u \in Users : AcctLogin(s, u)
  \/ \E s \in AcctSessions : AcctWidget(s)
  \/ \E s \in AcctSessions : AcctLogout(s)
  \/ \E u \in Users, ok \in BOOLEAN : AdminBan(u, ok)
  \/ \E ok \in BOOLEAN : AdminProfile(ok)

SpecAccount == AcctInit /\ [][AcctNext]_vars

\* C11: no login run ends on the main page for an account whose profile is
\* inactive, and no run of a main page carries out its handlers for a user
\* whose profile is inactive when the run starts, in either app.
C11_InactiveIsBlocked ==
  d.phase = "acct" =>
    /\ (d.last.event = "login_form" /\ d.last.account_status = "inactive")
         => d.last.view # "main"
    /\ d.last.acted => d.last.account_status = "active"

\* ======================= SpecProject: projects and the tasks that use them
\* Two sessions of the manager app work on the tables projects and tasks at
\* once; every call to the store is a step of its own. tasks.project_id is a
\* foreign key to projects.id (the select of fetch_all_tasks_and_details
\* embeds projects(...) through it); what a delete of a referenced project
\* does (refuse, cascade, set null) is the schema's choice, fixed at the start,
\* and so is whether old_project_ref_id is unique.
MaxProjectId == 3
MaxProjTasks == 2
ProjSessions == {"m1", "m2"}
OldRefs == {"Q1", "Q2"}
OnDelete == {"restrict", "cascade", "set_null"}
ProjIdle == [op |-> "idle", project_id |-> 0]
NoProjOp == [s |-> None, op |-> "none", project_id |-> 0, count |-> 0, error |-> None]

\* d.projects: id -> old_project_ref_id; d.tasks: id -> project_id (0: null);
\* d.seq: the id sequence of projects; d.pc: where each session's handler
\* stands; d.snap: all_projects_new as the session's page lists it.
ProjInit ==
  /\ InitCommon
  /\ tasks = <<>>
  /\ \E od \in OnDelete, uq \in BOOLEAN :
       d = [phase |-> "proj", on_delete |-> od, ref_unique |-> uq,
            projects |-> (1 :> "Q1"), seq |-> 1,
            tasks |-> <<>>,
            pc |-> [s \in ProjSessions |-> ProjIdle],
            snap |-> [s \in ProjSessions |-> {1}],
            last |-> NoProjOp]

\* A slip that trusts a project id without the foreign key.
FkHolds_Unchecked(pr, project_id) == TRUE

\* The foreign key of tasks.project_id on a write of a task row.
FkHolds(pr, project_id) == project_id \in DOMAIN pr

\* A slip that finds no referencing task.
task_check_count_Zero(tk, project_id) == 0

\* delete_project: select('id', count='exact').eq('project_id', project_id)
task_check_count(tk, project_id) ==
  Cardinality({t \in DOMAIN tk : tk[t] = project_id})

Without(f, k) == [x \in DOMAIN f \ {k} |-> f[x]]

\* The page of a session is drawn again: fetch_all_projects_new.
ProjRender(s) ==
  /\ d.phase = "proj" /\ d.pc[s] = ProjIdle
  /\ d.snap[s] # DOMAIN d.projects
  /\ d' = [d EXCEPT !.snap[s] = DOMAIN d.projects, !.last = NoProjOp]
  /\ UNCHANGED nonD

\* delete_project, first call: the count of referencing tasks; a positive
\* count is reported (st.error) and the function returns.
DeleteCheck(s, p) ==
  LET n == task_check_count(d.tasks, p)
  IN /\ d.phase = "proj" /\ d.pc[s] = ProjIdle /\ p \in d.snap[s]
     /\ d' = [d EXCEPT
                !.pc[s] = IF n > 0 THEN ProjIdle
                          ELSE [op |-> "delete", project_id |-> p],
                !.last = [s |-> s, op |-> "delete_check", project_id |-> p,
                          count |-> n,
                          error |-> IF n > 0 THEN "has_tasks" ELSE None]]
     /\ UNCHANGED nonD

\* delete_project, second call: .delete().eq('id', project_id); an exception
\* of the store is reported (st.error). On success the caches are cleared and
\* the page is drawn again.
DeleteExec(s) ==
  LET p == d.pc[s].project_id
      used == {t \in DOMAIN d.tasks : d.tasks[t] = p}
      refused == used # {} /\ d.on_delete = "restrict"
      pr2 == IF refused \/ p \notin DOMAIN d.projects THEN d.projects
             ELSE Without(d.projects, p)
      tk2 == IF used = {} \/ refused THEN d.tasks
             ELSE IF d.on_delete = "cascade"
             THEN [t \in DOMAIN d.tasks \ used |-> d.tasks[t]]
             ELSE [t \in DOMAIN d.tasks |-> IF t \in used THEN 0 ELSE d.tasks[t]]
  IN /\ d.phase = "proj" /\ d.pc[s].op = "delete"
     /\ d' = [d EXCEPT
                !.projects = pr2, !.tasks = tk2,
                !.pc[s] = ProjIdle,
                !.snap[s] = IF refused THEN @ ELSE DOMAIN pr2,
                !.last = [s |-> s, op |-> "delete_exec", project_id |-> p,
                          count |-> Cardinality(used),
                          error |-> IF refused THEN "exception" ELSE None]]
     /\ UNCHANGED nonD

\* The new-task form, first part: get_or_create_project_in_new_db selects
\* the project of the chosen quotation (limit 1) and returns its id; with no
\* such row it goes on to insert one.
NewTaskGet(s, ref) ==
  LET have == {p \in DOMAIN d.projects : d.projects[p] = ref}
  IN /\ d.phase = "proj" /\ d.pc[s] = ProjIdle
     /\ Cardinality(DOMAIN d.tasks) < MaxProjTasks
     /\ IF have # {}
        THEN \E p \in have :
               d' = [d EXCEPT !.pc[s] = [op |-> "insert", project_id |-> p],
                              !.last = [NoProjOp EXCEPT !.s = s, !.op = "get_project",
                                                        !.project_id = p]]
        ELSE d' = [d EXCEPT !.pc[s] = [op |-> "create", project_id |-> 0,
                                       ref |-> ref],
                            !.last = [NoProjOp EXCEPT !.s = s, !.op = "get_project"]]
     /\ UNCHANGED nonD

\* get_or_create_project_in_new_db's insert of the project row. Whether the
\* table refuses a second row with the same old_project_ref_id is the
\* schema's choice (d.ref_unique); a refusal is raised again and reported by
\* the form (st.error).
NewProjectInsert(s) ==
  LET ref == d.pc[s].ref
      clash == d.ref_unique /\ \E p \in DOMAIN d.projects : d.projects[p] = ref
  IN /\ d.phase = "proj" /\ d.pc[s].op = "create"
     /\ d.seq < MaxProjectId
     /\ d' = IF clash
             THEN [d EXCEPT !.pc[s] = ProjIdle,
                            !.last = [NoProjOp EXCEPT !.s = s, !.op = "create_project",
                                                      !.error = "exception"]]
             ELSE [d EXCEPT !.seq = @ + 1,
                            !.projects = (d.seq + 1 :> ref) @@ @,
                            !.pc[s] = [op |-> "insert", project_id |-> d.seq + 1],
                            !.last = [NoProjOp EXCEPT !.s = s, !.op = "create_project",
                                                      !.project_id = d.seq + 1]]
     /\ UNCHANGED nonD

\* The new-task form, second part: the insert of the task row with
\* project_id_in_new; an exception of the store is reported (st.error).
NewTaskInsert(s) ==
  LET p == d.pc[s].project_id
      ok == FkHolds(d.projects, p)
      id == Cardinality(DOMAIN d.tasks) + 1
  IN /\ d.phase = "proj" /\ d.pc[s].op = "insert"
     /\ d' = [d EXCEPT
                !.tasks = IF ok THEN (id :> p) @@ @ ELSE @,
                !.pc[s] = ProjIdle,
                !.snap[s] = IF ok THEN DOMAIN d.projects ELSE @,
                !.last = [s |-> s, op |-> "insert_task", project_id |-> p,
                          count |-> 0,
                          error |-> IF ok THEN None ELSE "exception"]]
     /\ UNCHANGED nonD

\* The edit form of task t with another project chosen from the listed ones:
\* update_task_details({'project_id': selected_project_id}).
EditProject(s, t, p) ==
  LET ok == FkHolds(d.projects, p)
  IN /\ d.phase = "proj" /\ d.pc[s] = ProjIdle
     /\ t \in DOMAIN d.tasks /\ p \in d.snap[s] /\ p # d.tasks[t]
     /\ d' = [d EXCEPT
                !.tasks = IF ok THEN [@ EXCEPT ![t] = p] ELSE @,
                !.snap[s] = IF ok THEN DOMAIN d.projects ELSE @,
                !.last = [s |-> s, op |-> "update_task", project_id |-> p,
                          count |-> 0,
                          error |-> IF ok THEN None ELSE "exception"]]
     /\ UNCHANGED nonD

ProjNext ==
  \/ \E s \in ProjSessions : ProjRender(s)
  \/ \E s \in ProjSessions, p \in 1..MaxProjectId : DeleteCheck(s, p)
  \/ \E s \in ProjSessions : DeleteExec(s)
  \/ \E s \in ProjSessions, ref \in OldRefs : NewTaskGet(s, ref)
  \/ \E s \in ProjSessions : NewProjectInsert(s)
  \/ \E s \in ProjSessions : NewTaskInsert(s)
  \/ \E s \in ProjSessions, t \in 1..MaxProjTasks, p \in 1..MaxProjectId :
       EditProject(s, t, p)

SpecProject == ProjInit /\ [][ProjNext]_vars

\* C12: a delete_project that counts one or more referencing tasks reports
\* the error and leaves projects and tasks as they were; a delete_project
\* whose delete reaches the store while no task references the project
\* leaves no row of that project.
C12_DeleteProjectContract ==
  [][d.phase = "proj" =>
       /\ (d'.last.op = "delete_check"
             /\ \E t \in DOMAIN d.tasks : d.tasks[t] = d'.last.project_id)
            => /\ d'.last.error # None
               /\ d'.projects = d.projects /\ d'.tasks = d.tasks
               /\ d'.pc[d'.last.s] = ProjIdle
       /\ (d'.last.op = "delete_exec"
             /\ \A t \in DOMAIN d.tasks : d.tasks[t] # d'.last.project_id)
            => /\ d'.last.project_id \notin DOMAIN d'.projects
               /\ d'.tasks = d.tasks /\ d'.last.error = None]_vars

\* A delete_project has been refused for a project that a task references.
C12_Witness ==
  /\ d.phase = "proj" /\ d.last.op = "delete_check" /\ d.last.error = "has_tasks"
  /\ d.last.project_id \in DOMAIN d.projects
  /\ \E t \in DOMAIN d.tasks : d.tasks[t] = d.last.project_id

CacheTasks == {1, 2}
CacheRows == [CacheTasks -> [status : StatusOptions]]

CacheInit ==
  /\ InitCommon
  /\ tasks = <<>>
  /\ \E rows \in CacheRows :
       d = [phase |-> "cache", rows |-> rows, my_tasks |-> Hit(rows),
            widget |-> [t \in CacheTasks |-> rows[t].status],
            shown |-> rows, rerun |-> FALSE,
            last |-> [event |-> "none", op |-> "none", follows_update |-> FALSE]]

\* fetch_my_tasks under st.cache_data: the kept answer, or the stored rows.
fetch_my_tasks(cache, rows) == IF cache.hit THEN cache.val ELSE rows

\* One run of the main page on the cache as the run finds it: my_tasks =
\* fetch_my_tasks(user.id), then the task loop; the first selectbox whose
\* value differs from task['status'] calls update_task_status (which clears
\* no cache) and st.rerun().
CacheRun(event, cache, widget) ==
  LET my_tasks == fetch_my_tasks(cache, d.rows)
      changed == {t \in CacheTasks : widget[t] # my_tasks[t].status}
      t1 == CHOOSE t \in changed : \A x \in changed : t <= x
  IN d' = [d EXCEPT
             !.my_tasks = Hit(my_tasks),
             !.widget = widget,
             !.shown = my_tasks,
             !.rows = IF changed = {} THEN @
                      ELSE update_task_status(@, t1, widget[t1]),
             !.rerun = (changed # {}),
             !.last = [event |-> event,
                       op |-> IF changed = {} THEN "none" ELSE "update_task_status",
                       follows_update |-> (d.last.op = "update_task_status")]]

\* The user sets the status selectbox of task t to new_status.
CachePick(t, new_status) ==
  /\ d.phase = "cache" /\ ~d.rerun
  /\ new_status # d.widget[t]
  /\ CacheRun("status_select", d.my_tasks, [d.widget EXCEPT ![t] = new_status])
  /\ UNCHANGED nonD

\* The run that st.rerun() starts.
CacheRerun ==
  /\ d.phase = "cache" /\ d.rerun
  /\ CacheRun("rerun", d.my_tasks, d.widget)
  /\ UNCHANGED nonD

\* The refresh button: st.cache_data.clear(), st.rerun().
CacheRefresh ==
  /\ d.phase = "cache" /\ ~d.rerun
  /\ CacheRun("refresh", Miss, d.widget)
  /\ UNCHANGED nonD

\* The kept answer of fetch_my_tasks reaches its ttl.
CacheExpire ==
  /\ d.phase = "cache" /\ d.my_tasks.hit
  /\ d' = [d EXCEPT !.my_tasks = Miss,
                    !.last = [@ EXCEPT !.event = "ttl", !.follows_update = FALSE]]
  /\ UNCHANGED nonD

CacheNext ==
  \/ \E t \in CacheTasks, st \in StatusOptions : CachePick(t, st)
  \/ CacheRerun
  \/ CacheRefresh
  \/ CacheExpire

SpecCache == CacheInit /\ [][CacheNext]_vars

\* C14: the run that follows a successful status change draws the stored
\* rows.
C14_NextRenderShowsStored ==
  (d.phase = "cache" /\ d.last.event = "rerun" /\ d.last.follows_update)
    => d.shown = d.rows

\* ============================== SpecDeadline: the deadline classifier alone
\* Instants are whole hours of one clock (UTC). A due_date value is absent
\* (None), the empty string, text that is no ISO timestamp, a value that is
\* no string, or an ISO timestamp of the instant utc.
MaxAheadDays == 16
MaxBehindDays == 2
HoursPerDay == 24
\* ZoneInfo("Asia/Ho_Chi_Minh"): UTC+7.
TzOffset == 7
\* The first and last hour a datetime can hold (years 1 and 9999), on the
\* model's clock.
DatetimeMin == 0
DatetimeMax == (MaxAheadDays + MaxBehindDays + 4) * HoursPerDay
DeadlineNows == {MaxBehindDays * HoursPerDay + 12, MaxBehindDays * HoursPerDay + 13}
DueInputs ==
  {[kind |-> k, utc |-> 0] : k \in {"none", "empty", "text", "number"}}
    \cup {[kind |-> "iso", utc |-> h] : h \in (DatetimeMin - TzOffset)..DatetimeMax}

\* datetime.fromisoformat(due_date_str).astimezone(local_tz): the exception
\* it raises, or "" and the local wall-clock hour.
ParseLocal(due) ==
  IF due.kind = "text" THEN [raised |-> "ValueError", local |-> 0]
  ELSE IF due.kind = "number" THEN [raised |-> "TypeError", local |-> 0]
  ELSE IF due.utc + TzOffset > DatetimeMax \/ due.utc + TzOffset < DatetimeMin
  THEN [raised |-> "OverflowError", local |-> 0]
  ELSE [raised |-> "", local |-> due.utc + TzOffset]

\* get_deadline_color: the colour returned, or the exception that leaves the
\* function ("raise ..."): only ValueError and TypeError are caught.
get_deadline_color(due, now_utc) ==
  IF due.kind \in {"none", "empty"} THEN "#f5f5f5"
  ELSE LET parsed == ParseLocal(due)
           time_remaining == parsed.local - (now_utc + TzOffset)
           days_remaining == time_remaining \div HoursPerDay
       IN IF parsed.raised \in {"ValueError", "TypeError"} THEN "#f5f5f5"
          ELSE IF parsed.raised # "" THEN "raise " \o parsed.raised
          ELSE IF days_remaining < 3 THEN "#ffebee"
          ELSE IF 3 <= days_remaining /\ days_remaining < 7 THEN "#fff3e0"
          ELSE IF 7 <= days_remaining /\ days_remaining < 15 THEN "#fffde7"
          ELSE "#e8f5e9"

DeadlineInit ==
  /\ InitCommon
  /\ tasks = <<>>
  /\ \E due \in DueInputs, n \in DeadlineNows :
       d = [phase |-> "due", due |-> due, now |-> n, color |-> "-"]

\* The task row is drawn: get_deadline_color(task.get('due_date')).
DeadlineRender ==
  /\ d.phase = "due"
  /\ d' = [d EXCEPT !.phase = "colored", !.color = get_deadline_color(d.due, d.now)]
  /\ UNCHANGED nonD

DeadlineNext == DeadlineRender

SpecDeadline == DeadlineInit /\ [][DeadlineNext]_vars

\* The buckets of section 4.1 by whole days remaining.
Bucket(days) ==
  IF days < 3 THEN "urgent" ELSE IF days < 7 THEN "soon"
  ELSE IF days < 15 THEN "moderate" ELSE "relaxed"
BucketOf(color) ==
  IF color = "#ffebee" THEN "urgent" ELSE IF color = "#fff3e0" THEN "soon"
  ELSE IF color = "#fffde7" THEN "moderate" ELSE IF color = "#e8f5e9" THEN "relaxed"
  ELSE IF color = "#f5f5f5" THEN "neutral" ELSE "raised"

\* C15: an ISO due timestamp gets the bucket of floor((due - now) / 1 day),
\* every other due value gets neutral, and no call raises.
C15_DeadlineBuckets ==
  d.phase = "colored" =>
    BucketOf(d.color) =
      IF d.due.kind = "iso" THEN Bucket((d.due.utc - d.now) \div HoursPerDay)
      ELSE "neutral"

\* ================================ SpecGroup: grouping and sorting the tasks
\* Text is a sequence of pieces, so that f"{name} (Mã: {code})" is a
\* concatenation; <<>> stands for None (no code, no assignee name, no
\* project). A due_date is an instant 1..MaxDue; NoDue stands for None.
MaxDue == 2
MaxGroupTasks == 3
NoDue == 0
PK1 == [name |-> <<"ACME">>, code |-> <<"Q1">>]
PK2 == [name |-> <<"ACME", " (Mã: ", "Q1", ")">>, code |-> <<>>]
PK3 == [name |-> <<"Beta">>, code |-> <<"Q2">>]
NoProjectInfo == [name |-> <<>>, code |-> <<>>]
ShowAll == <<"--- Hiển thị tất cả ---">>
GroupInputs ==
  [id : {0}, due_date : 0..MaxDue, projects : {PK1, PK2, PK3, NoProjectInfo},
   assignee_name : {<<"An">>, <<>>}]

\* The group key of a task: (project_name, old_project_ref_id), or the
\* app's title for tasks without a project; assignee_name when the manager
\* groups by employee.
group_key(app, group_by, task) ==
  IF group_by = "employee" THEN task.assignee_name
  ELSE IF task.projects # NoProjectInfo THEN task.projects
  ELSE IF app = "emp" THEN [name |-> <<"Công việc chung">>, code |-> <<>>]
  ELSE [name |-> <<"Không thuộc dự án cụ thể">>, code |-> <<>>]

\* The label of a group in the selectbox.
OptionLabel(group_by, key) ==
  IF group_by = "employee" THEN key
  ELSE IF key.code # <<>> THEN key.name \o <<" (Mã: ">> \o key.code \o <<")">>
  ELSE key.name

\* The place of a key in the order the app sorts keys by: key=lambda item:
\* item[0] (the name) in the employee app, key=str in the manager app
\* ("('ACME (Mã: Q1)', None)" < "('ACME', 'Q1')": ' ' sorts before "'").
KeyRank(app, group_by, key) ==
  IF group_by = "employee" THEN (IF key = <<>> THEN 2 ELSE 1)
  ELSE IF key = PK1 THEN (IF app = "emp" THEN 1 ELSE 2)
  ELSE IF key = PK2 THEN (IF app = "emp" THEN 2 ELSE 1)
  ELSE IF key = PK3 THEN 3
  ELSE 4

\* sorted(...): a stable sort of <<key, item>> pairs, keys compared as Python
\* compares tuples of two numbers.
KeyLeq(a, b) == a[1] < b[1] \/ (a[1] = b[1] /\ a[2] <= b[2])
InsertByKey(x, s) ==
  LET n == Cardinality({i \in 1..Len(s) : KeyLeq(s[i][1], x[1])})
  IN SubSeq(s, 1, n) \o <<x>> \o SubSeq(s, n + 1, Len(s))
RECURSIVE StableSort(_)
StableSort(s) ==
  IF s = <<>> THEN <<>>
  ELSE InsertByKey(s[Len(s)], StableSort(SubSeq(s, 1, Len(s) - 1)))
Items(pairs) == [i \in 1..Len(pairs) |-> pairs[i][2]]

\* A slip that forgets the "is None" component.
due_sort_key_DueOnly(task) == <<0, task.due_date>>

\* key=lambda t: (t.get('due_date') is None, t.get('due_date'))
due_sort_key(task) ==
  <<IF task.due_date = NoDue THEN 1 ELSE 0, task.due_date>>

\* key=lambda item: min(t.get('due_date') or '9999' for t in item[1])
min_due_key(group) ==
  LET dues == {IF group[i].due_date = NoDue THEN 9999 ELSE group[i].due_date :
                 i \in 1..Len(group)}
  IN <<0, CHOOSE m \in dues : \A x \in dues : m <= x>>

\* The keys of a defaultdict(list), in the order of first appearance.
RECURSIVE FirstKeys(_, _, _)
FirstKeys(app, group_by, ts) ==
  IF ts = <<>> THEN <<>>
  ELSE LET head == FirstKeys(app, group_by, SubSeq(ts, 1, Len(ts) - 1))
           k == group_key(app, group_by, ts[Len(ts)])
       IN IF \E i \in 1..Len(head) : head[i] = k THEN head ELSE Append(head, k)

\* options_map: a dict comprehension over the sorted keys; of two keys with
\* one label the later one stays.
options_map(app, group_by, keys) ==
  LET sorted == Items(StableSort([i \in 1..Len(keys) |->
                        <<(<<0, KeyRank(app, group_by, keys[i])>>), keys[i]>>]))
      labels == {OptionLabel(group_by, sorted[i]) : i \in 1..Len(sorted)}
  IN [l \in labels |->
        sorted[CHOOSE i \in 1..Len(sorted) :
                 /\ OptionLabel(group_by, sorted[i]) = l
                 /\ \A j \in 1..Len(sorted) :
                      OptionLabel(group_by, sorted[j]) = l => j <= i]]

\* One render of the task list with the option selected: the sections drawn,
\* each with its key and its task ids in order.
Sections(app, group_by, ts, selected) ==
  LET keys == FirstKeys(app, group_by, ts)
      om == options_map(app, group_by, keys)
      grouped(k) == SelectSeq(ts, LAMBDA t : group_key(app, group_by, t) = k)
      shown == IF selected # <<>> /\ selected # ShowAll THEN <<om[selected]>> ELSE keys
      ordered == Items(StableSort([i \in 1..Len(shown) |->
                   <<(IF app = "emp" THEN min_due_key(grouped(shown[i]))
                      ELSE <<0, KeyRank(app, group_by, shown[i])>>), shown[i]>>]))
  IN [i \in 1..Len(ordered) |->
        [key |-> ordered[i],
         tasks |-> Items(StableSort(
                     [j \in 1..Len(grouped(ordered[i])) |->
                        <<due_sort_key(grouped(ordered[i])[j]),
                          grouped(ordered[i])[j]>>]))]]

GroupInit ==
  /\ InitCommon
  /\ tasks = <<>>
  /\ \E ts \in [1..MaxGroupTasks -> GroupInputs] :
       d = [phase |-> "fetched",
            tasks |-> [i \in 1..MaxGroupTasks |-> [ts[i] EXCEPT !.id = i]],
            app |-> None, group_by |-> None, selected |-> ShowAll,
            options_map |-> <<>>, sections |-> <<>>]

\* The page is drawn by app, grouped by group_by, with an option of the
\* selectbox chosen.
GroupRender(app, group_by, selected) ==
  LET om == options_map(app, group_by, FirstKeys(app, group_by, d.tasks))
  IN /\ d.phase = "fetched"
     /\ app = "emp" => group_by = "project"
     /\ selected \in {ShowAll} \cup DOMAIN om
     /\ d' = [d EXCEPT !.phase = "shown", !.app = app, !.group_by = group_by,
                       !.selected = selected, !.options_map = om,
                       !.sections = Sections(app, group_by, d.tasks, selected)]
     /\ UNCHANGED nonD

GroupLabels ==
  {ShowAll, <<>>, <<"An">>, <<"Công việc chung">>, <<"Không thuộc dự án cụ thể">>}
    \cup {OptionLabel("project", k) : k \in {PK1, PK2, PK3}}

GroupNext ==
  \E app \in Apps, group_by \in {"project", "employee"}, selected \in GroupLabels :
    GroupRender(app, group_by, selected)

SpecGroup == GroupInit /\ [][GroupNext]_vars

\* C16: in every section drawn the tasks stand in ascending order of
\* due_date, each task without a due_date after every task that has one.
C16_TasksByDueNullLast ==
  d.phase = "shown" =>
    \A g \in 1..Len(d.sections) :
      LET ts == d.sections[g].tasks
      IN \A i, j \in 1..Len(ts) :
           i < j => \/ ts[j].due_date = NoDue
                    \/ (ts[i].due_date # NoDue /\ ts[i].due_date <= ts[j].due_date)

\* Due dates [2, none, 1] of one group are drawn as [1, 2, none].
C16_Witness ==
  /\ d.phase = "shown" /\ Len(d.sections) = 1
  /\ [i \in 1..MaxGroupTasks |-> d.tasks[i].due_date] = <<2, NoDue, 1>>
  /\ [i \in 1..Len(d.sections[1].tasks) |-> d.sections[1].tasks[i].due_date]
       = <<1, 2, NoDue>>

\* C17: with "show all" the sections stand in ascending order of the least
\* due_date of their tasks, a section without any due_date last, in either
\* app.
MinDue(ts) ==
  LET dues == {ts[i].due_date : i \in 1..Len(ts)} \ {NoDue}
  IN IF dues = {} THEN MaxDue + 1 ELSE CHOOSE m \in dues : \A x \in dues : m <= x

C17_GroupsByMinDue ==
  (d.phase = "shown" /\ d.selected = ShowAll) =>
    \A g, h \in 1..Len(d.sections) :
      g < h => MinDue(d.sections[g].tasks) <= MinDue(d.sections[h].tasks)

\* C18: with "show all" every fetched task is drawn exactly once; every
\* group has an option of its own that can be selected; and a selected
\* option draws exactly the tasks of its group.
C18_GroupingPartitions ==
  d.phase = "shown" =>
    LET K(t) == group_key(d.app, d.group_by, t)
        drawn == {<<g, i>> : g \in 1..Len(d.sections), i \in 1..MaxGroupTasks}
        at(t) == {p \in drawn : /\ p[2] <= Len(d.sections[p[1]].tasks)
                                /\ d.sections[p[1]].tasks[p[2]].id = t}
    IN /\ d.selected = ShowAll =>
            \A t \in 1..MaxGroupTasks : Cardinality(at(t)) = 1
       /\ \A t \in 1..MaxGroupTasks :
            \E l \in DOMAIN d.options_map :
              l # <<>> /\ d.options_map[l] = K(d.tasks[t])
       /\ d.selected # ShowAll =>
            \A t \in 1..MaxGroupTasks :
              Cardinality(at(t)) =
                IF K(d.tasks[t]) = d.options_map[d.selected] THEN 1 ELSE 0

\* ================================ SpecUpload: add_comment with an attachment
\* storage is the set of object paths in the bucket task-attachments,
\* comments the rows of the comments table (attachment_url 0 stands for
\* None). Each call of add_comment has its own file_path.
MaxUploads == 3
MiB == 1024 * 1024
FileSizes ==
  {0, 2 * MiB - 1, 2 * MiB, 2 * MiB + 1, 10 * MiB, 10 * MiB + 1}
NoUploadCall ==
  [app |-> None, has_file |-> FALSE, size |-> 0, upload_ok |-> FALSE,
   insert_ok |-> FALSE, calls |-> <<>>, file_path |-> 0]

UploadInit ==
  /\ InitCommon
  /\ tasks = <<>>
  /\ d = [phase |-> "upload", storage |-> {}, comments |-> {}, n |-> 0,
          last |-> NoUploadCall]

\* A slip that pastes the employee app's limit into the manager app.
size_limit_Same(app) == 10 * MiB

\* The size above which the attachment is refused.
size_limit(app) == IF app = "emp" THEN 10 * MiB ELSE 2 * MiB

\* A handler that removes the uploaded object when the insert fails.
insert_except_Cleanup(storage, file_path) == storage \ {file_path}

\* except Exception around the insert: st.error only, the bucket is left as
\* it is.
insert_except(storage, file_path) == storage

\* One call of add_comment: the size test, then the upload, then the insert,
\* each backend call succeeding or raising.
add_comment_call(app, has_file, size, upload_ok, insert_ok) ==
  LET file_path == d.n + 1
      rejected == has_file /\ size > size_limit(app)
      uploads == has_file /\ ~rejected
      inserts == ~rejected /\ (uploads => upload_ok)
      stored == IF uploads /\ upload_ok THEN d.storage \cup {file_path}
                ELSE d.storage
  IN /\ d.phase = "upload"
     /\ d.n < MaxUploads
     /\ ~has_file => (size = 0 /\ ~upload_ok)
     /\ (has_file /\ (rejected \/ ~upload_ok)) => ~insert_ok
     /\ rejected => ~upload_ok
     /\ d' = [d EXCEPT
          !.n = file_path,
          !.storage = IF inserts /\ ~insert_ok THEN insert_except(stored, file_path)
                      ELSE stored,
          !.comments = IF inserts /\ insert_ok
                       THEN @ \cup {[id |-> file_path,
                                     attachment_url |-> IF uploads THEN file_path ELSE 0]}
                       ELSE @,
          !.last = [app |-> app, has_file |-> has_file, size |-> size,
                    upload_ok |-> upload_ok, insert_ok |-> insert_ok,
                    calls |-> (IF uploads THEN <<"upload">> ELSE <<>>)
                                \o (IF inserts THEN <<"insert">> ELSE <<>>),
                    file_path |-> file_path]]
     /\ UNCHANGED nonD

UploadNext ==
  \E app \in Apps, has_file \in BOOLEAN, size \in FileSizes,
     upload_ok \in BOOLEAN, insert_ok \in BOOLEAN :
    add_comment_call(app, has_file, size, upload_ok, insert_ok)

SpecUpload == UploadInit /\ [][UploadNext]_vars

\* C19: a call of add_comment with an attachment above the limit (10 MiB in
\* the employee app, 2 MiB in the manager app) makes no backend call: the
\* bucket and the comments table stay as they were.
C19_OversizedRejected ==
  [][(/\ d'.phase = "upload"
      /\ d'.last.has_file
      /\ d'.last.size > (IF d'.last.app = "emp" THEN 10 * 1024 * 1024
                         ELSE 2 * 1024 * 1024))
       => /\ d'.last.calls = <<>>
          /\ d'.storage = d.storage
          /\ d'.comments = d.comments]_vars

\* The manager app has refused a file that the employee app would accept.
C19_Witness ==
  /\ d.phase = "upload"
  /\ d.last.app = "mgr" /\ d.last.has_file
  /\ d.last.size = 2 * 1024 * 1024 + 1
  /\ d.last.calls = <<>> /\ d.storage = {} /\ d.comments = {}

\* C20: the upload comes before the insert; a failed upload inserts no row;
\* a failed insert after a successful upload leaves the object in the bucket
\* with no row that refers to it.
C20_UploadThenInsert ==
  [][d'.phase = "upload" =>
       /\ d'.last.calls \in {<<>>, <<"upload">>, <<"insert">>, <<"upload", "insert">>}
       /\ (d'.last.calls # <<>> /\ d'.last.calls[1] = "upload" /\ ~d'.last.upload_ok)
            => (d'.last.calls = <<"upload">> /\ d'.comments = d.comments)
       /\ (d'.last.calls = <<"upload", "insert">> /\ ~d'.last.insert_ok)
            => /\ d'.storage = d.storage \cup {d'.last.file_path}
               /\ d'.last.file_path \notin d.storage
               /\ d'.comments = d.comments
               /\ \A c \in d'.comments : c.attachment_url # d'.last.file_path]_vars

\* An object lies in the bucket after its insert failed.
C20_Witness ==
  /\ d.phase = "upload"
  /\ d.last.calls = <<"upload", "insert">>
  /\ d.last.upload_ok /\ ~d.last.insert_ok
  /\ d.last.file_path \in d.storage
  /\ \A c \in d.comments : c.attachment_url # d.last.file_path

\* ============== SpecDeleteTask: delete_task against add_comment's upload
\* The manager app's delete_task makes three calls to the backend (list the
\* folder task_<id>, remove the listed objects, delete the task row); the
\* employee app's add_comment makes two (upload, insert). Every call is a
\* step of its own and may raise. Comments go with their task (cascade
\* delete in the database, as delete_task's docstring says) and a comment on
\* a task that is gone violates its foreign key.
MaxObjects == 2
DelTasks == {1, 2}
DelIdle == [op |-> "idle", task_id |-> 0, files |-> {}]
AttIdle == [op |-> "idle", task_id |-> 0, file_path |-> 0]

\* d.rows: the task rows; d.objects: the objects of the bucket, each under
\* the folder of its task; d.comments: comment rows with their attachment
\* (0: none); d.sees: my_tasks as the employee's page holds it.
DelTaskInit ==
  /\ InitCommon
  /\ tasks = <<>>
  /\ d = [phase |-> "deltask", rows |-> DelTasks, objects |-> {}, comments |-> {},
          seq |-> 0, sees |-> DelTasks, mgr |-> DelIdle, emp |-> AttIdle,
          ended |-> "none"]

\* The confirm button of the delete dialog: delete_task begins with
\* storage.list(path=folder_path).
DelTaskList(t, ok) ==
  /\ d.phase = "deltask" /\ d.mgr = DelIdle /\ t \in d.rows
  /\ d' = [d EXCEPT
             !.mgr = IF ok THEN [op |-> "listed", task_id |-> t,
                                 files |-> {o \in d.objects : o.task_id = t}]
                     ELSE DelIdle,
             !.ended = IF ok THEN "none" ELSE "list_failed"]
  /\ UNCHANGED nonD

\* storage.remove(files_to_remove), called when the list is not empty; an
\* exception ends delete_task with st.error.
DelTaskRemove(ok) ==
  LET gone == d.mgr.files
  IN /\ d.phase = "deltask" /\ d.mgr.op = "listed" /\ d.mgr.files # {}
     /\ d' = [d EXCEPT
                !.objects = IF ok THEN @ \ gone ELSE @,
                !.mgr = IF ok THEN [d.mgr EXCEPT !.op = "removed"] ELSE DelIdle,
                !.ended = IF ok THEN "none" ELSE "remove_failed"]
     /\ UNCHANGED nonD

\* table('tasks').delete().eq('id', task_id); an exception ends delete_task
\* with st.error.
DelTaskRow(ok) ==
  LET t == d.mgr.task_id
  IN /\ d.phase = "deltask"
     /\ \/ d.mgr.op = "removed"
        \/ d.mgr.op = "listed" /\ d.mgr.files = {}
     /\ d' = [d EXCEPT
                !.rows = IF ok THEN @ \ {t} ELSE @,
                !.comments = IF ok THEN {c \in @ : c.task_id # t} ELSE @,
                !.mgr = DelIdle,
                !.ended = IF ok THEN "deleted" ELSE "row_failed"]
     /\ UNCHANGED nonD

\* The employee's page is drawn again with my_tasks fetched anew.
AttachRender ==
  /\ d.phase = "deltask" /\ d.emp = AttIdle /\ d.sees # d.rows
  /\ d' = [d EXCEPT !.sees = d.rows]
  /\ UNCHANGED nonD

\* add_comment with a file on a task of the employee's page: storage.upload
\* under task_<id>/.
AttachUpload(t, ok) ==
  /\ d.phase = "deltask" /\ d.emp = AttIdle /\ t \in d.sees
  /\ d.seq < MaxObjects
  /\ d' = [d EXCEPT
             !.seq = @ + 1,
             !.objects = IF ok THEN @ \cup {[task_id |-> t, file_path |-> d.seq + 1]}
                         ELSE @,
             !.emp = IF ok THEN [op |-> "uploaded", task_id |-> t,
                                 file_path |-> d.seq + 1]
                     ELSE AttIdle]
  /\ UNCHANGED nonD

\* add_comment's insert of the comment row with attachment_url.
AttachInsert(ok) ==
  LET t == d.emp.task_id
  IN /\ d.phase = "deltask" /\ d.emp.op = "uploaded"
     /\ ok => t \in d.rows
     /\ d' = [d EXCEPT
                !.comments = IF ok THEN @ \cup {[task_id |-> t,
                                                 attachment_url |-> d.emp.file_path]}
                             ELSE @,
                !.emp = AttIdle]
     /\ UNCHANGED nonD

DelTaskNext ==
  \/ \E t \in DelTasks, ok \in BOOLEAN : DelTaskList(t, ok)
  \/ \E ok \in BOOLEAN : DelTaskRemove(ok)
  \/ \E ok \in BOOLEAN : DelTaskRow(ok)
  \/ AttachRender
  \/ \E t \in DelTasks, ok \in BOOLEAN : AttachUpload(t, ok)
  \/ \E ok \in BOOLEAN : AttachInsert(ok)

SpecDeleteTask == DelTaskInit /\ [][DelTaskNext]_vars

\* C21: a task whose row has been deleted has no object left under its
\* folder task_<id>/.
C21_NoObjectsOfDeletedTask ==
  d.phase = "deltask" =>
    \A o \in d.objects : o.task_id \in d.rows

\* C30: once delete_task has returned, every attachment that a comment row
\* refers to is in the bucket.
C30_DeleteTaskAllOrNothing ==
  (d.phase = "deltask" /\ d.mgr = DelIdle /\ d.ended # "none") =>
    \A c \in d.comments :
      \E o \in d.objects : o.task_id = c.task_id /\ o.file_path = c.attachment_url

\* ===================== SpecErrors: what a failing backend call leads to
\* Every call site of the backend with the except clause around it
\* ("st.error": the clause shows a message on the page; "print": it writes
\* to the server's console; "none": no try encloses the call, the run ends
\* with the exception), the widget that triggers the call and what the
\* caller does when the function has returned.
MaxCalls == 2
Site(app, name, handler, trigger, after) ==
  [app |-> app, name |-> name, handler |-> handler, trigger |-> trigger,
   after |-> after]

EmpBackendCalls ==
  {Site("emp", "fetch_my_tasks", "st.error", "render", "continue"),
   Site("emp", "fetch_comments", "st.error", "render", "continue"),
   Site("emp", "fetch_read_statuses", "st.error", "render", "continue"),
   Site("emp", "mark_task_as_read", "print", "button", "rerun"),
   Site("emp", "add_comment.upload", "st.error", "form", "rerun"),
   Site("emp", "add_comment.insert", "st.error", "form", "rerun"),
   Site("emp", "update_task_status", "st.error", "selectbox", "rerun"),
   Site("emp", "change_password", "st.error", "form", "continue"),
   Site("emp", "sign_in_with_password", "st.error", "form", "continue"),
   Site("emp", "profile_query", "none", "render", "continue"),
   Site("emp", "sign_out", "none", "button", "continue")}

MgrBackendCalls ==
  {Site("mgr", "fetch_all_tasks_and_details", "st.error", "render", "continue"),
   Site("mgr", "fetch_comments", "st.error", "render", "continue"),
   Site("mgr", "fetch_read_statuses", "st.error", "render", "continue"),
   Site("mgr", "mark_task_as_read", "print", "button", "rerun"),
   Site("mgr", "add_comment.upload", "st.error", "form", "rerun"),
   Site("mgr", "add_comment.insert", "st.error", "form", "rerun"),
   Site("mgr", "update_account_status", "st.error", "button", "continue"),
   Site("mgr", "update_task_details", "st.error", "form", "rerun"),
   Site("mgr", "delete_task", "st.error", "button", "rerun"),
   Site("mgr", "delete_project", "st.error", "button", "rerun"),
   Site("mgr", "delete_employee", "st.error", "button", "rerun"),
   Site("mgr", "new_task.insert", "st.error", "form", "continue"),
   Site("mgr", "reset_user_password", "st.error", "form", "rerun"),
   Site("mgr", "sign_in_with_password", "st.error", "form", "continue"),
   Site("mgr", "sign_out", "none", "button", "continue")}

\* The outcome of one call: whether an except clause took the exception,
\* the message on the page, and whether the run that follows makes the call
\* again by itself (st.rerun() with the widget's value still in
\* st.session_state: a selectbox keeps its value, a button or a form does
\* not).
Outcome(site, ok) ==
  [site |-> site.name, app |-> site.app, ok |-> ok,
   caught |-> ok \/ site.handler # "none",
   message |-> IF ok THEN None
               ELSE IF site.handler = "st.error" THEN "st.error"
               ELSE IF site.handler = "none" THEN "traceback"
               ELSE None,
   again |-> ~ok /\ site.trigger = "selectbox" /\ site.after = "rerun"]

ErrorsInit ==
  /\ InitCommon
  /\ tasks = <<>>
  /\ d = [phase |-> "calls", log |-> <<>>]

\* A backend call of a run succeeds or raises.
BackendCall(site, ok) ==
  /\ d.phase = "calls" /\ Len(d.log) < MaxCalls
  /\ d' = [d EXCEPT !.log = Append(@, Outcome(site, ok))]
  /\ UNCHANGED nonD

ErrorsNext ==
  \E site \in EmpBackendCalls \cup MgrBackendCalls, ok \in BOOLEAN :
    BackendCall(site, ok)

SpecErrors == ErrorsInit /\ [][ErrorsNext]_vars

\* C22: every failed backend call is taken by an except clause, shows a
\* message on the page and is not made again by the app itself.
C22_FailuresCaughtShownNotRetried ==
  d.phase = "calls" =>
    \A i \in 1..Len(d.log) :
      ~d.log[i].ok =>
        /\ d.log[i].caught
        /\ d.log[i].message = "st.error"
        /\ ~d.log[i].again

\* C27: when no call of update_account_status is under way, an account is
\* banned in Supabase Auth exactly when its profile says 'inactive'.
C27_BanAgreesWithStatus ==
  (d.phase = "acct" /\ d.call = NoCall) =>
    \A u \in Users : d.ban[u] <=> d.account_status[u] = "inactive"

\* C25: the run that st.rerun() starts after update_task_status finds no
\* selectbox that differs from its task's status and makes no update.
C25_OneUpdateThenQuiet ==
  (d.phase = "cache" /\ d.last.event = "rerun" /\ d.last.follows_update)
    => d.last.op = "none"

\* C26: the table projects holds at most one row for each
\* old_project_ref_id.
C26_OneProjectPerRef ==
  d.phase = "proj" =>
    \A p, q \in DOMAIN d.projects : d.projects[p] = d.projects[q] => p = q

\* ============================ SpecRole: who can carry out admin actions
\* One browser session of the manager app, used by an admin and by a
\* manager; a third account is an employee. d.user and d.role are
\* st.session_state.user and manager_profile['role'] as the login stored
\* them; d.keys are the dialog keys of st.session_state; d.accounts the
\* accounts that exist, d.active those whose account_status is 'active'.
RoleUsers == {"adm", "mgr", "emp"}
ProfileRole(u) ==
  IF u = "adm" THEN "admin" ELSE IF u = "mgr" THEN "manager" ELSE "employee"
NoKeys == [user_to_reset_pw |-> None, user_to_delete |-> None,
           project_to_delete |-> None]
NoAct == [op |-> "none", actor |-> None, role |-> None, target |-> None]

RoleInit ==
  /\ InitCommon
  /\ tasks = <<>>
  /\ d = [phase |-> "role", user |-> None, role |-> None, keys |-> NoKeys,
          accounts |-> RoleUsers, active |-> RoleUsers, last |-> NoAct]

Act(op, target) == [op |-> op, actor |-> d.user, role |-> d.role, target |-> target]

\* The login form: the role must be 'manager' or 'admin' and the account not
\* inactive; user and manager_profile are stored, nothing else is reset.
RoleLogin(u) ==
  /\ d.phase = "role" /\ d.user = None
  /\ u \in d.accounts \cap d.active
  /\ ProfileRole(u) \in {"manager", "admin"}
  /\ d' = [d EXCEPT !.user = u, !.role = ProfileRole(u), !.last = NoAct]
  /\ UNCHANGED nonD

\* The logout button: user and manager_profile are set to None.
RoleLogout ==
  /\ d.phase = "role" /\ d.user # None
  /\ d' = [d EXCEPT !.user = None, !.role = None, !.last = NoAct]
  /\ UNCHANGED nonD

\* The add-employee form, drawn if current_user_role == 'admin'.
RoleAddEmployee ==
  /\ d.phase = "role" /\ d.user # None /\ d.role = "admin"
  /\ \E u \in RoleUsers \ d.accounts :
       d' = [d EXCEPT !.accounts = @ \cup {u}, !.active = @ \cup {u},
                      !.last = Act("create_user", u)]
  /\ UNCHANGED nonD

\* The buttons of a listed account: the list skips u['id'] == user.id and
\* draws the buttons if current_user_role == 'admin'. Activate / deactivate
\* calls update_account_status; the two others set a dialog key.
RoleUserButton(button, u) ==
  /\ d.phase = "role" /\ d.user # None /\ d.role = "admin"
  /\ u \in d.accounts /\ u # d.user
  /\ d' = IF button = "status"
          THEN [d EXCEPT !.active = IF u \in @ THEN @ \ {u} ELSE @ \cup {u},
                         !.last = Act("update_account_status", u)]
          ELSE [d EXCEPT !.keys[button] = u, !.last = NoAct]
  /\ UNCHANGED nonD

\* The delete button of a listed project, drawn if current_user_role ==
\* 'admin'.
RoleProjectButton ==
  /\ d.phase = "role" /\ d.user # None /\ d.role = "admin"
  /\ d' = [d EXCEPT !.keys.project_to_delete = "project", !.last = NoAct]
  /\ UNCHANGED nonD

\* The confirm button of a dialog, drawn whenever its key is set:
\* reset_user_password, delete_employee or delete_project is called and the
\* key deleted.
RoleConfirm(key) ==
  LET target == d.keys[key]
      op == IF key = "user_to_reset_pw" THEN "reset_user_password"
            ELSE IF key = "user_to_delete" THEN "delete_employee"
            ELSE "delete_project"
  IN /\ d.phase = "role" /\ d.user # None /\ target # None
     /\ d' = [d EXCEPT !.keys[key] = None,
                       !.accounts = IF key = "user_to_delete" THEN @ \ {target} ELSE @,
                       !.last = Act(op, target)]
     /\ UNCHANGED nonD

\* The cancel button of a dialog.
RoleCancel(key) ==
  /\ d.phase = "role" /\ d.user # None /\ d.keys[key] # None
  /\ d' = [d EXCEPT !.keys[key] = None, !.last = NoAct]
  /\ UNCHANGED nonD

RoleNext ==
  \/ \E u \in RoleUsers : RoleLogin(u)
  \/ RoleLogout
  \/ RoleAddEmployee
  \/ \E b \in {"status", "user_to_reset_pw", "user_to_delete"}, u \in RoleUsers :
       RoleUserButton(b, u)
  \/ RoleProjectButton
  \/ \E key \in DialogKeys : RoleConfirm(key)
  \/ \E key \in DialogKeys : RoleCancel(key)

SpecRole == RoleInit /\ [][RoleNext]_vars

\* C29: every admin action (create user, activate / deactivate, reset
\* password, delete user, delete project) is carried out by a user whose role
\* is 'admin', and never on the acting user's own account.
C29_AdminActionsByAdminOnOthers ==
  (d.phase = "role" /\ d.last.op # "none") =>
    /\ d.last.role = "admin"
    /\ d.last.target # d.last.actor

\* ================================ SpecDelUser: delete_employee step by step
\* delete_employee calls auth.admin.delete_user and then deletes the profile
\* row. Rows of tasks and comments refer to profiles (the selects embed
\* profiles(...) through these keys) and block the delete of a profile they
\* refer to. How profiles is tied to the auth users is the schema's choice,
\* fixed at the start: "cascade" (profiles.id references auth.users on delete
\* cascade, so that the auth delete takes the profile with it and fails when
\* that is blocked) or "no_fk" (the auth delete does not look at profiles).
DelUsers == {"emp", "emp2"}
AuthSchemas == {"cascade", "no_fk"}
ErrorTexts ==
  {"violates foreign key constraint", "Database error deleting user",
   "network error"}
NoDelUser == [op |-> "none", user_id |-> None, referenced |-> FALSE,
              had_account |-> FALSE, error |-> None, message |-> None]

DelUserInit ==
  /\ InitCommon
  /\ tasks = <<>>
  /\ \E sc \in AuthSchemas :
       d = [phase |-> "deluser", schema |-> sc, auth |-> DelUsers,
            profiles |-> DelUsers, refs |-> {}, pc |-> None, last |-> NoDelUser]

\* The except clause of delete_employee: the integrity message if the text
\* of the exception has "violates foreign key constraint", else the raw one.
delete_employee_message(error_str) ==
  IF error_str = "violates foreign key constraint" THEN "integrity" ELSE "raw"

DelUserEnd(u, error_str) ==
  [op |-> "delete_employee", user_id |-> u, referenced |-> u \in d.refs,
   had_account |-> IF d.pc = None THEN u \in d.auth ELSE d.last.had_account,
   error |-> error_str,
   message |-> IF error_str = None THEN "toast"
               ELSE delete_employee_message(error_str)]

\* The user writes a comment or gets a task, or the last such row goes.
RefChange(u) ==
  /\ d.phase = "deluser" /\ u \in d.profiles
  /\ d' = [d EXCEPT !.refs = IF u \in @ THEN @ \ {u} ELSE @ \cup {u},
                    !.last = [@ EXCEPT !.op = "none"]]
  /\ UNCHANGED nonD

\* The confirm button of the delete-user dialog: auth.admin.delete_user. The
\* call raises when the request fails, when the account is gone, or when the
\* database refuses the delete (with the text that the auth server gives,
\* which may or may not quote the constraint).
DelUserAuth(u, error_str) ==
  LET blocked == d.schema = "cascade" /\ u \in d.refs /\ u \in d.profiles
  IN /\ d.phase = "deluser" /\ d.pc = None /\ u \in d.profiles
     /\ error_str \in ErrorTexts \cup {None}
     /\ (u \notin d.auth \/ blocked) => error_str # None
     /\ error_str = "violates foreign key constraint" => blocked
     /\ error_str = "Database error deleting user" => (blocked \/ u \notin d.auth)
     /\ d' = IF error_str # None
             THEN [d EXCEPT !.last = DelUserEnd(u, error_str)]
             ELSE [d EXCEPT !.auth = @ \ {u},
                            !.profiles = IF d.schema = "cascade" THEN @ \ {u} ELSE @,
                            !.pc = u,
                            !.last = [DelUserEnd(u, None) EXCEPT !.op = "none"]]
     /\ UNCHANGED nonD

\* table('profiles').delete().eq('id', user_id): refused by the foreign keys
\* of the rows that refer to the profile.
DelUserProfile(error_str) ==
  LET u == d.pc
      blocked == u \in d.refs /\ u \in d.profiles
  IN /\ d.phase = "deluser" /\ d.pc # None
     /\ error_str \in {None, "violates foreign key constraint", "network error"}
     /\ blocked <=> error_str = "violates foreign key constraint"
     /\ d' = [d EXCEPT !.profiles = IF error_str = None THEN @ \ {u} ELSE @,
                       !.refs = IF error_str = None THEN @ \ {u} ELSE @,
                       !.pc = None,
                       !.last = DelUserEnd(u, error_str)]
     /\ UNCHANGED nonD

DelUserNext ==
  \/ \E u \in DelUsers : RefChange(u)
  \/ \E u \in DelUsers, e \in ErrorTexts \cup {None} : DelUserAuth(u, e)
  \/ \E e \in ErrorTexts \cup {None} : DelUserProfile(e)

SpecDelUser == DelUserInit /\ [][DelUserNext]_vars

\* C23: a delete_employee on a user with referencing rows, whose account
\* existed before the call and whose requests reached the backend, ends
\* with the integrity message and with the auth account and the profile row
\* still there.
C23_ReferencedUserIsKept ==
  (/\ d.phase = "deluser" /\ d.last.op = "delete_employee"
   /\ d.last.referenced /\ d.last.had_account
   /\ d.last.error # "network error")
    => /\ d.last.message = "integrity"
       /\ d.last.user_id \in d.auth
       /\ d.last.user_id \in d.profiles

\* ==================== SpecStale: the employee's cached list against the store
\* One task, one session of the employee app for "emp". d.row is the task
\* row of the store; d.my_tasks is st.cache_data of fetch_my_tasks(user.id)
\* (ttl=60), holding the rows it last fetched; d.page is what the session's
\* page shows of the task (whether it is listed, whether its selectbox and
\* comment form are disabled, whether the run was expired); d.expired is
\* is_expired of the session, which stays once set.
MaxStaleComments == 2
StaleUsers == {"emp", "emp2"}
NoWrite == [event |-> "none", op |-> "none", completed |-> FALSE,
            assigned_to |-> None, not_sent |-> FALSE]

StaleInit ==
  /\ InitCommon
  /\ tasks = <<>>
  /\ d = [phase |-> "stale",
          row |-> [status |-> "To Do", assigned_to |-> "emp",
                   is_completed_by_manager |-> FALSE],
          my_tasks |-> Hit(<<[status |-> "To Do", assigned_to |-> "emp",
                              is_completed_by_manager |-> FALSE]>>),
          page |-> [listed |-> TRUE, locked |-> FALSE, is_expired |-> FALSE],
          expired |-> FALSE, comments |-> 0, read |-> FALSE, last |-> NoWrite]

\* fetch_my_tasks(user.id): the kept answer, or .eq('assigned_to', user_id)
\* on the store.
MyTasks ==
  IF d.my_tasks.hit THEN d.my_tasks.val
  ELSE IF d.row.assigned_to = "emp" THEN <<d.row>> ELSE <<>>

\* One run of the main page that takes the event of a widget of the task:
\* the task loop draws the widgets of the tasks in my_tasks and handles the
\* event against the row as my_tasks has it; the writes name the row by its
\* id only. What the run wrote is kept with the state of the stored row at
\* the write.
StaleRun(event, new_status) ==
  LET my == MyTasks
      listed == my # <<>>
      task == my[1]
      lck == is_task_locked(task, d.expired)
      update == event = "status_select" /\ listed /\ new_status # task.status /\ ~lck
      not_sent == event = "comment_form" /\ listed /\ lck
      insert == event = "comment_form" /\ listed /\ ~d.expired
      mark == event = "mark_button" /\ listed /\ ~d.expired
  IN d' = [d EXCEPT
             !.my_tasks = Hit(my),
             !.row = IF update THEN [@ EXCEPT !.status = new_status] ELSE @,
             !.comments = IF insert THEN @ + 1 ELSE @,
             !.read = @ \/ mark,
             !.page = [listed |-> listed, locked |-> listed /\ lck,
                       is_expired |-> d.expired],
             !.last = [event |-> event,
                       op |-> IF update THEN "update_task_status"
                              ELSE IF insert THEN "add_comment"
                              ELSE IF mark THEN "mark_task_as_read" ELSE "none",
                       completed |-> d.row.is_completed_by_manager,
                       assigned_to |-> d.row.assigned_to,
                       not_sent |-> not_sent]]

\* The status selectbox (disabled=is_task_locked on the page) is set.
StaleStatus(new_status) ==
  /\ d.phase = "stale" /\ d.page.listed /\ ~d.page.locked
  /\ StaleRun("status_select", new_status)
  /\ UNCHANGED nonD

\* The comment form (disabled=is_task_locked on the page) is submitted with
\* a text.
StaleComment ==
  /\ d.phase = "stale" /\ d.page.listed /\ ~d.page.locked
  /\ d.comments < MaxStaleComments
  /\ StaleRun("comment_form", d.row.status)
  /\ UNCHANGED nonD

\* The mark-as-read button (disabled=is_expired on the page) is pressed.
StaleMark ==
  /\ d.phase = "stale" /\ d.page.listed /\ ~d.page.is_expired
  /\ StaleRun("mark_button", d.row.status)
  /\ UNCHANGED nonD

\* The kept answer of fetch_my_tasks reaches its ttl of 60 seconds: the next
\* run fetches again; the page in the browser stays as it was drawn.
StaleTtl ==
  /\ d.phase = "stale" /\ d.my_tasks.hit
  /\ d' = [d EXCEPT !.my_tasks = Miss, !.last = NoWrite]
  /\ UNCHANGED nonD

\* The refresh button: st.cache_data.clear() and st.rerun(); the page is
\* drawn again from the store.
StaleRefresh ==
  /\ d.phase = "stale"
  /\ d' = [d EXCEPT !.my_tasks = Hit(IF d.row.assigned_to = "emp" THEN <<d.row>>
                                     ELSE <<>>),
                    !.page = [listed |-> d.row.assigned_to = "emp",
                              locked |-> d.row.assigned_to = "emp"
                                         /\ is_task_locked(d.row, d.expired),
                              is_expired |-> d.expired],
                    !.last = NoWrite]
  /\ UNCHANGED nonD

\* The session has been idle for more than TIMEOUT_IN_SECONDS.
StaleExpire ==
  /\ d.phase = "stale" /\ ~d.expired
  /\ d' = [d EXCEPT !.expired = TRUE, !.last = NoWrite]
  /\ UNCHANGED nonD

\* The manager's closing review sets is_completed_by_manager on the row.
SetOverlay ==
  /\ d.phase = "stale" /\ ~d.row.is_completed_by_manager
  /\ d' = [d EXCEPT !.row.is_completed_by_manager = TRUE, !.last = NoWrite]
  /\ UNCHANGED nonD

\* The manager's edit form gives the task to another employee:
\* update_task_details({'assigned_to': selected_employee_id}).
Reassign(u) ==
  /\ d.phase = "stale" /\ u # d.row.assigned_to
  /\ d' = [d EXCEPT !.row.assigned_to = u, !.last = NoWrite]
  /\ UNCHANGED nonD

StaleNext ==
  \/ \E st \in StatusOptions : StaleStatus(st)
  \/ StaleComment
  \/ StaleMark
  \/ StaleTtl
  \/ StaleRefresh
  \/ StaleExpire
  \/ SetOverlay
  \/ \E u \in StaleUsers : Reassign(u)

SpecStale == StaleInit /\ [][StaleNext]_vars

\* C24: no run of the employee app updates the status of, or inserts a
\* comment on, a task that carries is_completed_by_manager at the write, and
\* no run both reports a comment as not sent and inserts it.
C24_OverlayBlocksEmployeeWrites ==
  d.phase = "stale" =>
    /\ d.last.op \in {"update_task_status", "add_comment"} => ~d.last.completed
    /\ ~(d.last.not_sent /\ d.last.op = "add_comment")

\* C28: no run of the employee app updates the status of, or marks as read,
\* a task that is not assigned to the logged-in user at the write.
C28_WritesOnOwnTasksOnly ==
  d.phase = "stale" =>
    (d.last.op \in {"update_task_status", "mark_task_as_read"}
       => d.last.assigned_to = "emp")

====
